---- MODULE Spec2Model ----
(***************************************************************************)
(* A model of the mcp-lite protocol engine: the pending-request adapter,   *)
(* the in-memory session store, the JSON-RPC dispatcher of McpServer and   *)
(* the streamable HTTP transport.                                          *)
(*                                                                         *)
(* JavaScript strings are sequences of one-character strings, so that the  *)
(* string conversions of the code (makeKey, formatEventId, parseEventId)   *)
(* are computed and not assumed.  The value `undefined' is Undefined for   *)
(* strings and the empty tuple for optional numbers.                       *)
(***************************************************************************)
EXTENDS Integers, Sequences, FiniteSets, TLC

VARIABLES
    adapter,      \* the InMemoryClientRequestAdapter object
    lastCall,     \* the last adapter call made by the driver and what it returned
    store,        \* the InMemorySessionAdapter object
    appended,     \* per session and stream, every event appended since the session was created
    storeCall,    \* the last session-store call made by the driver and what it did
    dispatched,   \* the last _dispatch call made by the driver and what it returned
    transport,    \* the StreamableHttpTransport object and the SSE writers it created
    mcpServer,    \* the McpServer the transport is bound to
    exchanges,    \* the tools/call requests whose handler was started
    lastHttp      \* the last HTTP request that was answered, and its response

pendingVars == <<adapter, lastCall>>

storeVars == <<store, appended, storeCall>>

dispatchVars == <<dispatched>>

transportVars == <<transport, mcpServer, exchanges, lastHttp>>

vars ==
    <<adapter, lastCall, store, appended, storeCall, dispatched,
      transport, mcpServer, exchanges, lastHttp>>

(***************************************************************************)
(* Values                                                                  *)
(***************************************************************************)
Undefined == <<"undefined">>

NoNumber == <<>>

Coalesce(a, b) == IF a # NoNumber THEN a ELSE b

RemoveKey(f, k) == [x \in DOMAIN f \ {k} |-> f[x]]

PutKey(f, k, v) == [x \in DOMAIN f \cup {k} |-> IF x = k THEN v ELSE f[x]]

(***************************************************************************)
(* client-request-adapter.ts                                               *)
(***************************************************************************)
\* String(requestId)
StringOf(requestId) ==
    IF requestId.t = "null" THEN <<"n", "u", "l", "l">> ELSE requestId.v

makeKey(sessionId, requestId) ==
    (IF sessionId = Undefined THEN <<>> ELSE sessionId) \o <<":">> \o StringOf(requestId)

\* A call of a promise's resolve or reject function: only the first settles it.
Settle(p, how, reason) ==
    [p EXCEPT !.settleCalls = @ + 1,
              !.state = IF p.state = "pending" THEN how ELSE @,
              !.reason = IF p.state = "pending" THEN reason ELSE @]

clearTimeout(p) == [p EXCEPT !.timer = IF @ = "armed" THEN "cleared" ELSE @]

NewAdapter(defaultTimeoutMs) ==
    [defaultTimeoutMs |-> defaultTimeoutMs, pending |-> <<>>, promises |-> <<>>]

NoCall == [op |-> "none", key |-> <<>>, ret |-> FALSE]

\* The adapter part of the state while another component is exercised alone.
PendingIdle == adapter = NewAdapter(NoNumber) /\ lastCall = NoCall

createPending_KeepsPrior(a, sessionId, requestId, options) ==
    LET key == makeKey(sessionId, requestId)
        timeoutMs == Coalesce(options.timeout_ms, a.defaultTimeoutMs)
        timer == IF timeoutMs # NoNumber /\ timeoutMs[1] # 0 /\ timeoutMs[1] > 0
                 THEN "armed" ELSE "none"
        h == Len(a.promises) + 1
    IN  [a EXCEPT !.promises = Append(@, [key |-> key, state |-> "pending",
                                           settleCalls |-> 0, reason |-> "none",
                                           timer |-> timer, timeoutMs |-> timeoutMs]),
                  !.pending = PutKey(@, key, h)]

createPending_LeavesTimerArmed(a, sessionId, requestId, options) ==
    LET key == makeKey(sessionId, requestId)
        a1 == IF key \in DOMAIN a.pending
              THEN [a EXCEPT !.promises[a.pending[key]] =
                                 Settle(@, "rejected", "replaced"),
                             !.pending = RemoveKey(@, key)]
              ELSE a
        timeoutMs == Coalesce(options.timeout_ms, a.defaultTimeoutMs)
        timer == IF timeoutMs # NoNumber /\ timeoutMs[1] # 0 /\ timeoutMs[1] > 0
                 THEN "armed" ELSE "none"
        h == Len(a1.promises) + 1
    IN  [a1 EXCEPT !.promises = Append(@, [key |-> key, state |-> "pending",
                                            settleCalls |-> 0, reason |-> "none",
                                            timer |-> timer, timeoutMs |-> timeoutMs]),
                   !.pending = PutKey(@, key, h)]

createPending(a, sessionId, requestId, options) ==
    LET key == makeKey(sessionId, requestId)
        a1 == IF key \in DOMAIN a.pending
              THEN [a EXCEPT !.promises[a.pending[key]] =
                                 Settle(clearTimeout(@), "rejected", "replaced"),
                             !.pending = RemoveKey(@, key)]
              ELSE a
        timeoutMs == Coalesce(options.timeout_ms, a.defaultTimeoutMs)
        timer == IF timeoutMs # NoNumber /\ timeoutMs[1] # 0 /\ timeoutMs[1] > 0
                 THEN "armed" ELSE "none"
        h == Len(a1.promises) + 1
    IN  [a1 EXCEPT !.promises = Append(@, [key |-> key, state |-> "pending",
                                            settleCalls |-> 0, reason |-> "none",
                                            timer |-> timer, timeoutMs |-> timeoutMs]),
                   !.pending = PutKey(@, key, h)]

\* The callback of the timer that createPending arms for promise h.
timeoutCallback(a, h) ==
    [a EXCEPT !.pending = RemoveKey(@, a.promises[h].key),
              !.promises[h] = Settle([@ EXCEPT !.timer = "fired"], "rejected", "timeout")]

resolvePending_NoDelete(a, sessionId, requestId) ==
    LET key == makeKey(sessionId, requestId)
    IN  IF key \notin DOMAIN a.pending
        THEN [a |-> a, ret |-> FALSE]
        ELSE [a |-> [a EXCEPT !.promises[a.pending[key]] =
                                  Settle(clearTimeout(@), "resolved", "response")],
              ret |-> TRUE]

resolvePending_NoClear(a, sessionId, requestId) ==
    LET key == makeKey(sessionId, requestId)
    IN  IF key \notin DOMAIN a.pending
        THEN [a |-> a, ret |-> FALSE]
        ELSE [a |-> [a EXCEPT !.promises[a.pending[key]] =
                                  Settle(@, "resolved", "response"),
                              !.pending = RemoveKey(@, key)],
              ret |-> TRUE]

resolvePending(a, sessionId, requestId) ==
    LET key == makeKey(sessionId, requestId)
    IN  IF key \notin DOMAIN a.pending
        THEN [a |-> a, ret |-> FALSE]
        ELSE [a |-> [a EXCEPT !.promises[a.pending[key]] =
                                  Settle(clearTimeout(@), "resolved", "response"),
                              !.pending = RemoveKey(@, key)],
              ret |-> TRUE]

rejectPending(a, sessionId, requestId, reason) ==
    LET key == makeKey(sessionId, requestId)
    IN  IF key \notin DOMAIN a.pending
        THEN [a |-> a, ret |-> FALSE]
        ELSE [a |-> [a EXCEPT !.promises[a.pending[key]] =
                                  Settle(clearTimeout(@), "rejected", reason),
                              !.pending = RemoveKey(@, key)],
              ret |-> TRUE]

(***************************************************************************)
(* session-store.ts                                                        *)
(***************************************************************************)
DigitChars == <<"0", "1", "2", "3", "4", "5", "6", "7", "8", "9">>

IsDigit(c) == \E i \in 1..10 : DigitChars[i] = c

DigitValue(c) == (CHOOSE i \in 1..10 : DigitChars[i] = c) - 1

RECURSIVE NumberToString(_)
NumberToString(n) ==
    IF n < 10 THEN <<DigitChars[n + 1]>>
    ELSE NumberToString(n \div 10) \o <<DigitChars[(n % 10) + 1]>>

\* parseInt(str, 10) on a string without sign or leading blanks: the value of
\* the longest prefix of digits, NaN (NoNumber) when that prefix is empty.
RECURSIVE ParseDigits(_, _, _)
ParseDigits(str, i, acc) ==
    IF i > Len(str) \/ ~IsDigit(str[i]) THEN acc
    ELSE ParseDigits(str, i + 1, acc * 10 + DigitValue(str[i]))

parseInt(str) ==
    IF str = <<>> \/ ~IsDigit(str[1]) THEN NoNumber ELSE <<ParseDigits(str, 1, 0)>>

\* String.prototype.lastIndexOf, 1-based; 0 when the character does not occur.
lastIndexOf(str, c) ==
    IF \E i \in 1..Len(str) : str[i] = c
    THEN CHOOSE i \in 1..Len(str) : str[i] = c /\ \A j \in (i + 1)..Len(str) : str[j] # c
    ELSE 0

formatEventId(sequenceNumber, streamId) ==
    NumberToString(sequenceNumber) \o <<"#">> \o streamId

parseEventId(eventId) ==
    LET hashIndex == lastIndexOf(eventId, "#")
        n == parseInt(SubSeq(eventId, 1, hashIndex - 1))
    IN  IF hashIndex = 0 \/ n = NoNumber \/ n[1] < 1
        THEN [threw |-> TRUE, sequenceNumber |-> 0, streamId |-> <<>>]
        ELSE [threw |-> FALSE, sequenceNumber |-> n[1],
              streamId |-> SubSeq(eventId, hashIndex + 1, Len(eventId))]

\* Array.prototype.slice(-k): the last k elements; slice(-0) is slice(0), the
\* whole array.
sliceLast(arr, k) ==
    IF k = 0 \/ k >= Len(arr) THEN arr ELSE SubSeq(arr, Len(arr) - k + 1, Len(arr))

NewStore(maxEventBufferSize) ==
    [maxEventBufferSize |-> maxEventBufferSize, sessions |-> <<>>]

NoStoreCall ==
    [op |-> "none", id |-> <<>>, lastEventId |-> <<>>, threw |-> FALSE, writes |-> <<>>]

\* The store part of the state while another component is exercised alone.
StoreIdle == store = NewStore(0) /\ appended = <<>> /\ storeCall = NoStoreCall

storeCreate(st, id, meta) ==
    [st EXCEPT !.sessions = PutKey(@, id, [meta |-> meta, streams |-> <<>>])]

storeDelete(st, id) == [st EXCEPT !.sessions = RemoveKey(@, id)]

appendEvent_NumbersByBufferLength(st, id, streamId, message) ==
    IF id \notin DOMAIN st.sessions
    THEN [st |-> st, eventId |-> Undefined]
    ELSE LET streams == st.sessions[id].streams
             streamData == IF streamId \in DOMAIN streams THEN streams[streamId]
                           ELSE [nextEventId |-> 1, eventBuffer |-> <<>>]
             eventId == formatEventId(Len(streamData.eventBuffer) + 1, streamId)
             pushed == Append(streamData.eventBuffer, [id |-> eventId, message |-> message])
             trimmed == IF Len(pushed) > st.maxEventBufferSize
                        THEN sliceLast(pushed, st.maxEventBufferSize)
                        ELSE pushed
         IN  [st |-> [st EXCEPT !.sessions[id].streams =
                          PutKey(@, streamId, [nextEventId |-> streamData.nextEventId + 1,
                                               eventBuffer |-> trimmed])],
              eventId |-> eventId]

\* appendEvent: the store after the call and the event id it returns
\* (Undefined when the session does not exist).
appendEvent(st, id, streamId, message) ==
    IF id \notin DOMAIN st.sessions
    THEN [st |-> st, eventId |-> Undefined]
    ELSE LET streams == st.sessions[id].streams
             streamData == IF streamId \in DOMAIN streams THEN streams[streamId]
                           ELSE [nextEventId |-> 1, eventBuffer |-> <<>>]
             eventId == formatEventId(streamData.nextEventId, streamId)
             pushed == Append(streamData.eventBuffer, [id |-> eventId, message |-> message])
             trimmed == IF Len(pushed) > st.maxEventBufferSize
                        THEN sliceLast(pushed, st.maxEventBufferSize)
                        ELSE pushed
         IN  [st |-> [st EXCEPT !.sessions[id].streams =
                          PutKey(@, streamId, [nextEventId |-> streamData.nextEventId + 1,
                                               eventBuffer |-> trimmed])],
              eventId |-> eventId]

\* replay: whether it threw, and the (eventId, message) pairs it passed to write.
replay(st, id, lastEventId) ==
    IF id \notin DOMAIN st.sessions
    THEN [threw |-> FALSE, writes |-> <<>>]
    ELSE LET last == parseEventId(lastEventId)
             streams == st.sessions[id].streams
             After(event) == parseEventId(event.id).sequenceNumber > last.sequenceNumber
         IN  IF last.threw THEN [threw |-> TRUE, writes |-> <<>>]
             ELSE IF last.streamId \notin DOMAIN streams
             THEN [threw |-> FALSE, writes |-> <<>>]
             ELSE [threw |-> FALSE,
                   writes |-> SelectSeq(streams[last.streamId].eventBuffer, After)]

(***************************************************************************)
(* types.ts, errors.ts, utils.ts, core.ts: JSON-RPC messages and _dispatch *)
(***************************************************************************)
PARSE_ERROR == -32700

INVALID_REQUEST == -32600

METHOD_NOT_FOUND == -32601

INVALID_PARAMS == -32602

INTERNAL_ERROR == -32603

V2025_03_26 == "2025-03-26"

V2025_06_18 == "2025-06-18"

SUPPORTED_MCP_PROTOCOL_VERSIONS_LIST == {V2025_03_26, V2025_06_18}

\* A message without an "id" member (a notification), and the id null.
AbsentId == [t |-> "absent", v |-> <<>>]

NullId == [t |-> "null", v |-> <<>>]

RpcError(code, message) == [rpc |-> TRUE, code |-> code, message |-> message]

PlainError(message) == [rpc |-> FALSE, code |-> 0, message |-> message]

createJsonRpcResponse(id, result) ==
    [id |-> id, isError |-> FALSE, code |-> 0, body |-> result]

createJsonRpcError(id, error) ==
    [id |-> id, isError |-> TRUE, code |-> error.code,
     body |-> [kind |-> "error", message |-> error.message]]

\* Falsy JSON-RPC ids: null, the number 0 and the empty string.
Falsy(id) == id.t = "null" \/ (id.t = "number" /\ id.v = <<"0">>) \/ (id.t = "string" /\ id.v = <<>>)

\* errorToResponse and _dispatch return a response or null: a tuple of one
\* response, or the empty tuple.
errorToResponse_FalsyIdNull(err, requestId) ==
    IF requestId = AbsentId THEN <<>>
    ELSE LET id == IF Falsy(requestId) THEN NullId ELSE requestId
         IN  IF err.rpc THEN <<createJsonRpcError(id, err)>>
             ELSE <<createJsonRpcError(id, RpcError(INTERNAL_ERROR, "Internal error"))>>

errorToResponse(err, requestId) ==
    IF requestId = AbsentId THEN <<>>
    ELSE IF err.rpc THEN <<createJsonRpcError(requestId, err)>>
    ELSE <<createJsonRpcError(requestId, RpcError(INTERNAL_ERROR, "Internal error"))>>

isSupportedVersion_AnyString(version) == version # ""

isSupportedVersion(version) == version \in SUPPORTED_MCP_PROTOCOL_VERSIONS_LIST

isInitializeParams(params) ==
    params.isObject /\ params.versionIsString /\ params.restWellFormed

\* What a handler call does: it returns a result or throws an error.
Returns(result) == [threw |-> FALSE, result |-> result, error |-> PlainError("")]

Throws(error) == [threw |-> TRUE, result |-> [kind |-> "none"], error |-> error]

handleInitialize_EchoesRequested(params) ==
    IF ~isInitializeParams(params)
    THEN Throws(RpcError(INVALID_PARAMS, "Invalid initialize parameters"))
    ELSE Returns([kind |-> "initialize", protocolVersion |-> params.protocolVersion])

handleInitialize(params) ==
    IF ~isInitializeParams(params)
    THEN Throws(RpcError(INVALID_PARAMS, "Invalid initialize parameters"))
    ELSE Returns([kind |-> "initialize",
                  protocolVersion |-> IF isSupportedVersion(params.protocolVersion)
                                      THEN params.protocolVersion
                                      ELSE V2025_03_26])

\* The methods table of the server is an object literal: a method name that
\* is no key of it but a member of Object.prototype still yields a value.
RegisteredMethods ==
    {"initialize", "ping", "tools/list", "tools/call", "prompts/get",
     "resources/read", "resources/subscribe", "notifications/initialized"}

MethodLookup(method) ==
    IF method \in RegisteredMethods THEN "registered"
    ELSE IF method = "toString" THEN "inheritedFunction"
    ELSE IF method = "__proto__" THEN "inheritedObject"
    ELSE "absent"

\* The outcomes a method's handler can have; a tool handler is user code and
\* may return, throw an RpcError or throw any other error.
HandlerOutcomes(method, params) ==
    CASE method = "initialize" -> {handleInitialize(params)}
      [] method \in {"tools/call", "prompts/get", "resources/read"} ->
            {Returns([kind |-> "tool"]),
             Throws(RpcError(INVALID_PARAMS, "invalid arguments")),
             Throws(RpcError(METHOD_NOT_FOUND, "Method not found")),
             Throws(PlainError("tool failed"))}
      [] method = "resources/subscribe" ->
            {Throws(RpcError(INTERNAL_ERROR, "Not implemented"))}
      [] method = "toString" -> {Returns([kind |-> "[object Undefined]"])}
      [] method = "__proto__" -> {Throws(PlainError("handler is not a function"))}
      [] OTHER -> {Returns([kind |-> "empty"])}

\* tail of _dispatch: the ctx.response it leaves and whether it threw.
tail(message, outcome) ==
    IF MethodLookup(message.method) = "absent"
    THEN [threw |-> FALSE, error |-> PlainError(""), tailRan |-> TRUE,
          response |-> IF message.id = AbsentId THEN <<>>
                       ELSE <<createJsonRpcError(message.id,
                                   RpcError(METHOD_NOT_FOUND, "Method not found"))>>]
    ELSE IF outcome.threw
    THEN [threw |-> TRUE, error |-> outcome.error, tailRan |-> TRUE,
          response |-> <<>>]
    ELSE [threw |-> FALSE, error |-> PlainError(""), tailRan |-> TRUE,
          response |-> IF message.id = AbsentId THEN <<>>
                       ELSE <<createJsonRpcResponse(message.id, outcome.result)>>]

\* runMiddlewares from middleware i on.  A middleware calls next and returns
\* ("next"), returns without calling next ("skip"), assigns ctx.response and
\* returns without calling next ("respond"), throws before calling next
\* ("throw") or throws after next returned ("throwAfterNext").
RECURSIVE runMiddlewares(_, _, _, _)
runMiddlewares(middlewares, i, message, outcome) ==
    IF i > Len(middlewares) THEN tail(message, outcome)
    ELSE CASE middlewares[i] = "next" -> runMiddlewares(middlewares, i + 1, message, outcome)
           [] middlewares[i] = "skip" ->
                 [threw |-> FALSE, error |-> PlainError(""), tailRan |-> FALSE,
                  response |-> <<>>]
           [] middlewares[i] = "respond" ->
                 [threw |-> FALSE, error |-> PlainError(""), tailRan |-> FALSE,
                  response |-> <<createJsonRpcResponse(message.id, [kind |-> "middleware"])>>]
           [] middlewares[i] = "throw" ->
                 [threw |-> TRUE, error |-> PlainError("middleware failed"),
                  tailRan |-> FALSE, response |-> <<>>]
           [] middlewares[i] = "throwAfterNext" ->
                 LET r == runMiddlewares(middlewares, i + 1, message, outcome)
                 IN  IF r.threw THEN r
                     ELSE [r EXCEPT !.threw = TRUE,
                                    !.error = PlainError("middleware failed")]

\* _dispatch, given what the method's handler does when it is called.  The
\* onError hook is absent ("none"), returns an error object ("custom"),
\* returns undefined ("undefined") or throws ("throws").
CustomError == [code |-> -32001, message |-> "custom"]

dispatch_AnswersNotificationErrors(server, message, outcome) ==
    LET run == runMiddlewares(server.middlewares, 1, message, outcome)
    IN  IF ~run.threw
        THEN IF message.id = AbsentId THEN <<>>
             ELSE IF run.response = <<>>
             THEN <<createJsonRpcError(message.id,
                        RpcError(INTERNAL_ERROR, "No response generated"))>>
             ELSE run.response
        ELSE IF server.onError = "custom"
             THEN <<createJsonRpcError(message.id, CustomError)>>
             ELSE errorToResponse(run.error, message.id)

dispatch_HookFailureEscapes(server, message, outcome) ==
    LET run == runMiddlewares(server.middlewares, 1, message, outcome)
    IN  IF ~run.threw
        THEN IF message.id = AbsentId THEN <<>>
             ELSE IF run.response = <<>>
             THEN <<createJsonRpcError(message.id,
                        RpcError(INTERNAL_ERROR, "No response generated"))>>
             ELSE run.response
        ELSE IF message.id = AbsentId THEN <<>>
             ELSE IF server.onError = "custom"
             THEN <<createJsonRpcError(message.id, CustomError)>>
             ELSE IF server.onError = "throws" THEN <<>>
             ELSE errorToResponse(run.error, message.id)

dispatch(server, message, outcome) ==
    LET run == runMiddlewares(server.middlewares, 1, message, outcome)
    IN  IF ~run.threw
        THEN IF message.id = AbsentId THEN <<>>
             ELSE IF run.response = <<>>
             THEN <<createJsonRpcError(message.id,
                        RpcError(INTERNAL_ERROR, "No response generated"))>>
             ELSE run.response
        ELSE IF message.id = AbsentId THEN <<>>
             ELSE IF server.onError = "custom"
             THEN <<createJsonRpcError(message.id, CustomError)>>
             ELSE errorToResponse(run.error, message.id)

\* Whether _dispatch called the onError hook: the chain threw, the message is
\* a request and a hook is set.
onErrorCalled(server, message, outcome) ==
    /\ runMiddlewares(server.middlewares, 1, message, outcome).threw
    /\ message.id # AbsentId
    /\ server.onError # "none"

\* Whether the method's handler was called during the dispatch.
HandlerCalled(server, message) ==
    /\ MethodLookup(message.method) # "absent"
    /\ runMiddlewares(server.middlewares, 1, message, Returns([kind |-> "empty"])).tailRan

NoDispatch ==
    [server |-> [middlewares |-> <<>>, onError |-> "none"],
     message |-> [id |-> AbsentId, method |-> "", params |-> [isObject |-> FALSE]],
     outcome |-> Returns([kind |-> "none"]),
     calls |-> 0,
     responses |-> <<>>]

DispatchIdle == dispatched = NoDispatch

(***************************************************************************)
(* createSSEStream and transport-http: the streamable HTTP transport.  The *)
(* transport object, the session store, the pending-request adapter, the   *)
(* server and the tool calls in flight form the world a handler acts on.   *)
(***************************************************************************)
SSE_STREAM_ID == <<"_", "G", "E", "T", "_", "s", "t", "r", "e", "a", "m">>

\* Header values: a missing (null) or empty session id is falsy; an absent or
\* empty MCP-Protocol-Version header and an unknown session version are "".
FalsyString(s) == s = Undefined \/ s = <<>>

NoVersion == ""

startsWith(str, prefix) ==
    Len(prefix) <= Len(str) /\ SubSeq(str, 1, Len(prefix)) = prefix

requestStreamKey(sessionId, requestId) == sessionId \o <<":">> \o StringOf(requestId)

\* The n-th value returned by crypto.randomUUID().
randomUUID(n) == <<"u">> \o NumberToString(n)

NewTransport(sessionAdapter, clientRequestAdapter) ==
    [sessionAdapter |-> sessionAdapter, clientRequestAdapter |-> clientRequestAdapter,
     sessionStreams |-> <<>>, requestStreams |-> <<>>, writers |-> <<>>, uuids |-> 0]

\* What a writer enqueued: a JSON-RPC message and the SSE event id, if any.
Sse(type, id, isError, eventId) ==
    [type |-> type, id |-> id, isError |-> isError, eventId |-> eventId]

\* A message JSON.stringify throws on (a cyclic value, a BigInt).
Unserializable == Sse("unserializable", AbsentId, FALSE, Undefined)

\* createSSEStream: a new writer whose onClose removes `key' from one of the
\* two stream maps; onCloseCalls counts the calls of onClose.
createSSEStream(t, scope, key) ==
    [t EXCEPT !.writers = Append(@, [closed |-> FALSE, out |-> <<>>,
                                     scope |-> scope, key |-> key,
                                     onCloseCalls |-> 0])]

\* end() without the test of `closed'.
end_RunsOnCloseAgain(t, w) ==
    IF t.writers[w].scope = "session"
    THEN [t EXCEPT !.writers[w].closed = TRUE,
                   !.writers[w].onCloseCalls = @ + 1,
                   !.sessionStreams = RemoveKey(@, t.writers[w].key)]
    ELSE [t EXCEPT !.writers[w].closed = TRUE,
                   !.writers[w].onCloseCalls = @ + 1,
                   !.requestStreams = RemoveKey(@, t.writers[w].key)]

\* end(), which the stream's cancel() calls too: controller.close() and
\* onClose, whose failures are swallowed.
end(t, w) ==
    IF t.writers[w].closed THEN t
    ELSE IF t.writers[w].scope = "session"
    THEN [t EXCEPT !.writers[w].closed = TRUE,
                   !.writers[w].onCloseCalls = @ + 1,
                   !.sessionStreams = RemoveKey(@, t.writers[w].key)]
    ELSE [t EXCEPT !.writers[w].closed = TRUE,
                   !.writers[w].onCloseCalls = @ + 1,
                   !.requestStreams = RemoveKey(@, t.writers[w].key)]

\* write(): a message that cannot be encoded or enqueued ends the stream.
write(t, w, message) ==
    IF t.writers[w].closed THEN t
    ELSE IF message = Unserializable THEN end(t, w)
    ELSE [t EXCEPT !.writers[w].out = Append(@, message)]

RECURSIVE endAll(_, _)
endAll(t, ws) ==
    IF ws = {} THEN t
    ELSE LET w == CHOOSE x \in ws : TRUE IN endAll(end(t, w), ws \ {w})

cleanupSession(t, sessionId) ==
    LET t1 == IF sessionId \in DOMAIN t.sessionStreams
              THEN end(t, t.sessionStreams[sessionId]) ELSE t
        t2 == [t1 EXCEPT !.sessionStreams = RemoveKey(@, sessionId)]
        keys == {k \in DOMAIN t2.requestStreams : startsWith(k, sessionId \o <<":">>)}
        t3 == endAll(t2, {t2.requestStreams[k] : k \in keys})
    IN  [t3 EXCEPT !.requestStreams = [k \in DOMAIN @ \ keys |-> @[k]]]

\* The world: [transport, store, adapter, server, exchanges].
SessionMeta(w, sessionId) ==
    IF w.transport.sessionAdapter /\ ~FalsyString(sessionId)
       /\ sessionId \in DOMAIN w.store.sessions
    THEN <<w.store.sessions[sessionId].meta>>
    ELSE <<>>

getSessionProtocolVersion_AssumesOlder(w, sessionId) ==
    IF SessionMeta(w, sessionId) = <<>> THEN V2025_03_26
    ELSE SessionMeta(w, sessionId)[1].protocolVersion

getSessionProtocolVersion(w, sessionId) ==
    IF SessionMeta(w, sessionId) = <<>> THEN NoVersion
    ELSE SessionMeta(w, sessionId)[1].protocolVersion

getClientCapabilities_StatelessSupportsAll(w, sessionId) ==
    IF SessionMeta(w, sessionId) = <<>>
    THEN IF ~w.transport.sessionAdapter /\ ~FalsyString(sessionId)
         THEN {"elicitation", "sampling"} ELSE {}
    ELSE SessionMeta(w, sessionId)[1].clientCapabilities

\* The capabilities object as the set of its keys; undefined and {} both
\* make client.supports false.
getClientCapabilities(w, sessionId) ==
    IF SessionMeta(w, sessionId) = <<>> THEN {}
    ELSE SessionMeta(w, sessionId)[1].clientCapabilities

\* An HTTP response: status, JSON-RPC bodies, MCP-Session-Id header, and the
\* writer of its SSE body (0 when the body is not a stream).
Http(status, body, sessionId, stream) ==
    [status |-> status, body |-> body, sessionId |-> sessionId, stream |-> stream]

NoHttpResponse == Http(0, <<>>, Undefined, 0)

respondToInvalidJsonRpc ==
    Http(400, <<createJsonRpcError(NullId, RpcError(INVALID_REQUEST, "Invalid JSON-RPC 2.0 message format"))>>,
         Undefined, 0)

respondToProtocolMismatch(responseId) ==
    Http(400, <<createJsonRpcError(responseId, RpcError(INVALID_PARAMS, "Protocol version mismatch"))>>,
         Undefined, 0)

respondToMissingProtocolHeader(responseId) ==
    Http(400, <<createJsonRpcError(responseId, RpcError(INVALID_PARAMS, "Missing required MCP-Protocol-Version header"))>>,
         Undefined, 0)

respondToMissingSessionId == Http(400, <<>>, Undefined, 0)

validateProtocolHeader_UnknownAsNewest(sessionVersion, protocolHeader, responseId) ==
    IF sessionVersion = V2025_03_26
    THEN IF protocolHeader # NoVersion /\ protocolHeader # sessionVersion
         THEN <<respondToProtocolMismatch(responseId)>>
         ELSE <<>>
    ELSE IF protocolHeader = NoVersion THEN <<respondToMissingProtocolHeader(responseId)>>
    ELSE IF protocolHeader # V2025_06_18 THEN <<respondToProtocolMismatch(responseId)>>
    ELSE <<>>

\* validateProtocolHeader: the error response, or nothing.
validateProtocolHeader(sessionVersion, protocolHeader, responseId) ==
    IF sessionVersion = V2025_06_18
    THEN IF protocolHeader = NoVersion THEN <<respondToMissingProtocolHeader(responseId)>>
         ELSE IF protocolHeader # sessionVersion THEN <<respondToProtocolMismatch(responseId)>>
         ELSE <<>>
    ELSE IF sessionVersion = V2025_03_26
    THEN IF protocolHeader # NoVersion /\ protocolHeader # sessionVersion
         THEN <<respondToProtocolMismatch(responseId)>>
         ELSE <<>>
    ELSE IF protocolHeader # NoVersion /\ protocolHeader \notin SUPPORTED_MCP_PROTOCOL_VERSIONS_LIST
         THEN <<respondToProtocolMismatch(responseId)>>
         ELSE <<>>

sendClientRequest_WritesUnregistered(w, sessionId, requestId, relatedRequestId, timeout_ms) ==
    IF ~w.transport.clientRequestAdapter \/ requestId.t \in {"null", "absent"}
    THEN [w |-> w, threw |-> TRUE, promise |-> 0]
    ELSE LET a1 == createPending(w.adapter, sessionId, requestId, [timeout_ms |-> timeout_ms])
             a2 == [a1 EXCEPT !.pending = RemoveKey(@, makeKey(sessionId, requestId))]
             t == w.transport
             message == Sse("request", requestId, FALSE, Undefined)
             viaRequest ==
                 /\ ~FalsyString(sessionId)
                 /\ relatedRequestId # AbsentId
                 /\ requestStreamKey(sessionId, relatedRequestId) \in DOMAIN t.requestStreams
             viaSession ==
                 /\ ~FalsyString(sessionId)
                 /\ sessionId \in DOMAIN t.sessionStreams
         IN  IF viaRequest
             THEN [w |-> [w EXCEPT !.adapter = a2,
                                   !.transport = write(t, t.requestStreams[
                                       requestStreamKey(sessionId, relatedRequestId)], message)],
                   threw |-> FALSE, promise |-> Len(a1.promises)]
             ELSE IF viaSession
             THEN [w |-> [w EXCEPT !.adapter = a2,
                                   !.transport = write(t, t.sessionStreams[sessionId], message)],
                   threw |-> FALSE, promise |-> Len(a1.promises)]
             ELSE [w |-> [w EXCEPT !.adapter =
                                      rejectPending(a1, sessionId, requestId, "undelivered").a],
                   threw |-> TRUE, promise |-> 0]

sendClientRequest_KeepsUndelivered(w, sessionId, requestId, relatedRequestId, timeout_ms) ==
    IF ~w.transport.clientRequestAdapter \/ requestId.t \in {"null", "absent"}
    THEN [w |-> w, threw |-> TRUE, promise |-> 0]
    ELSE LET a1 == createPending(w.adapter, sessionId, requestId, [timeout_ms |-> timeout_ms])
             t == w.transport
             message == Sse("request", requestId, FALSE, Undefined)
             viaRequest ==
                 /\ ~FalsyString(sessionId)
                 /\ relatedRequestId # AbsentId
                 /\ requestStreamKey(sessionId, relatedRequestId) \in DOMAIN t.requestStreams
             viaSession ==
                 /\ ~FalsyString(sessionId)
                 /\ sessionId \in DOMAIN t.sessionStreams
         IN  IF viaRequest
             THEN [w |-> [w EXCEPT !.adapter = a1,
                                   !.transport = write(t, t.requestStreams[
                                       requestStreamKey(sessionId, relatedRequestId)], message)],
                   threw |-> FALSE, promise |-> Len(a1.promises)]
             ELSE IF viaSession
             THEN [w |-> [w EXCEPT !.adapter = a1,
                                   !.transport = write(t, t.sessionStreams[sessionId], message)],
                   threw |-> FALSE, promise |-> Len(a1.promises)]
             ELSE [w |-> [w EXCEPT !.adapter = a1], threw |-> TRUE, promise |-> 0]

\* sendClientRequest: the world after it, whether it threw, and the promise
\* it returns (a handle of the adapter).
sendClientRequest(w, sessionId, requestId, relatedRequestId, timeout_ms) ==
    IF ~w.transport.clientRequestAdapter \/ requestId.t \in {"null", "absent"}
    THEN [w |-> w, threw |-> TRUE, promise |-> 0]
    ELSE LET a1 == createPending(w.adapter, sessionId, requestId, [timeout_ms |-> timeout_ms])
             t == w.transport
             message == Sse("request", requestId, FALSE, Undefined)
             viaRequest ==
                 /\ ~FalsyString(sessionId)
                 /\ relatedRequestId # AbsentId
                 /\ requestStreamKey(sessionId, relatedRequestId) \in DOMAIN t.requestStreams
             viaSession ==
                 /\ ~FalsyString(sessionId)
                 /\ sessionId \in DOMAIN t.sessionStreams
         IN  IF viaRequest
             THEN [w |-> [w EXCEPT !.adapter = a1,
                                   !.transport = write(t, t.requestStreams[
                                       requestStreamKey(sessionId, relatedRequestId)], message)],
                   threw |-> FALSE, promise |-> Len(a1.promises)]
             ELSE IF viaSession
             THEN [w |-> [w EXCEPT !.adapter = a1,
                                   !.transport = write(t, t.sessionStreams[sessionId], message)],
                   threw |-> FALSE, promise |-> Len(a1.promises)]
             ELSE [w |-> [w EXCEPT !.adapter =
                                      rejectPending(a1, sessionId, requestId, "undelivered").a],
                   threw |-> TRUE, promise |-> 0]

\* ctx.elicit of the tool call x up to the point where it awaits the client's
\* response: the world after it, whether it threw and what, and the promise.
elicit(w, x, elicitId, timeout_ms) ==
    IF "elicitation" \notin x.clientCapabilities
    THEN [w |-> w, threw |-> TRUE, promise |-> 0,
          error |-> RpcError(METHOD_NOT_FOUND, "Elicitation not supported by client")]
    ELSE IF ~w.transport.clientRequestAdapter
    THEN [w |-> w, threw |-> TRUE, promise |-> 0,
          error |-> RpcError(INTERNAL_ERROR, "Client request sender not configured")]
    ELSE LET r == sendClientRequest(w, x.sessionId, elicitId, x.request.message.id, timeout_ms)
         IN  [w |-> r.w, threw |-> r.threw, promise |-> r.promise,
              error |-> PlainError("No active streams to deliver client request")]

\* ctx.sample of the tool call x up to the point where it awaits the client's
\* response.
sample(w, x, sampleId, timeout_ms) ==
    IF "sampling" \notin x.clientCapabilities
    THEN [w |-> w, threw |-> TRUE, promise |-> 0,
          error |-> RpcError(METHOD_NOT_FOUND, "Sampling not supported by client")]
    ELSE IF ~w.transport.clientRequestAdapter
    THEN [w |-> w, threw |-> TRUE, promise |-> 0,
          error |-> RpcError(INTERNAL_ERROR, "Client request sender not configured")]
    ELSE LET r == sendClientRequest(w, x.sessionId, sampleId, x.request.message.id, timeout_ms)
         IN  [w |-> r.w, threw |-> r.threw, promise |-> r.promise,
              error |-> PlainError("No active streams to deliver client request")]

\* The MCP-Session-Id header of a response to a request that named a session.
SessionHeader(w, sessionId) ==
    IF w.transport.sessionAdapter /\ ~FalsyString(sessionId) THEN sessionId ELSE Undefined

complete_LeavesStreamOpen(w, x, outcome) ==
    LET responses == dispatch(w.server, x.request.message, outcome)
        t == w.transport
    IN  IF x.sse
        THEN [transport |-> IF responses # <<>>
                            THEN write(t, x.writer, Sse("response", responses[1].id,
                                                        responses[1].isError, Undefined))
                            ELSE t,
              http |-> NoHttpResponse,
              delivered |-> IF t.writers[x.writer].closed THEN 0 ELSE Len(responses)]
        ELSE [transport |-> t,
              http |-> IF responses = <<>> THEN Http(202, <<>>, Undefined, 0)
                       ELSE Http(200, responses, SessionHeader(w, x.request.sessionId), 0),
              delivered |-> Len(responses)]

\* What follows _dispatch once the handler of the call x has had `outcome':
\* the transport after it, the HTTP response of a plain POST, and how many
\* responses reached the client's connection.
complete(w, x, outcome) ==
    LET responses == dispatch(w.server, x.request.message, outcome)
        t == w.transport
    IN  IF x.sse
        THEN LET t1 == IF responses # <<>>
                       THEN write(t, x.writer,
                                  Sse("response", responses[1].id, responses[1].isError, Undefined))
                       ELSE t
                 t2 == end(t1, x.writer)
             IN  [transport |-> [t2 EXCEPT !.requestStreams = RemoveKey(@, x.key)],
                  http |-> NoHttpResponse,
                  delivered |-> IF t.writers[x.writer].closed THEN 0 ELSE Len(responses)]
        ELSE [transport |-> t,
              http |-> IF responses = <<>> THEN Http(202, <<>>, Undefined, 0)
                       ELSE Http(200, responses, SessionHeader(w, x.request.sessionId), 0),
              delivered |-> Len(responses)]

\* The outcome of a handler that is not user code.
BuiltinOutcome(message) == CHOOSE o \in HandlerOutcomes(message.method, message.params) : TRUE

Suspends(w, message) == message.method = "tools/call" /\ HandlerCalled(w.server, message)

NewExchange(w, req, sse, sessionId, writer, key) ==
    [request |-> [sessionId |-> req.sessionId, message |-> req.message,
                  behaviour |-> req.behaviour],
     sse |-> sse, sessionId |-> sessionId,
     clientCapabilities |-> getClientCapabilities(w, sessionId),
     writer |-> writer, key |-> key, pc |-> "running", promise |-> 0, delivered |-> 0]

\* Each handler below returns the world after it and the HTTP response it
\* returned (NoHttpResponse while the response waits for a tool handler).
handlePostSse(w, req) ==
    LET requestId == req.message.id
        t == w.transport
        generated == FalsyString(req.sessionId)
        effectiveSessionId == IF generated THEN randomUUID(t.uuids + 1) ELSE req.sessionId
        key == requestStreamKey(effectiveSessionId, requestId)
        t1 == createSSEStream(t, "request", key)
        writer == Len(t1.writers)
        t2 == [t1 EXCEPT !.requestStreams = PutKey(@, key, writer),
                         !.uuids = IF generated THEN @ + 1 ELSE @]
        w2 == [w EXCEPT !.transport = t2]
        x == NewExchange(w2, req, TRUE, effectiveSessionId, writer, key)
        http == Http(200, <<>>, SessionHeader(w, req.sessionId), writer)
    IN  IF requestId = NullId THEN [w |-> w, http |-> Http(400, <<>>, Undefined, 0)]
        ELSE IF Suspends(w, req.message)
        THEN [w |-> [w2 EXCEPT !.exchanges = Append(@, x)], http |-> http]
        ELSE [w |-> [w2 EXCEPT !.transport =
                         complete(w2, x, BuiltinOutcome(req.message)).transport],
              http |-> http]

RECURSIVE batchResponses_StopsAtError(_, _, _)
batchResponses_StopsAtError(w, batch, i) ==
    IF i > Len(batch) THEN <<>>
    ELSE IF batch[i].kind # "call"
    THEN <<createJsonRpcError(NullId,
               RpcError(INVALID_REQUEST, "Invalid JSON-RPC 2.0 message in batch"))>>
    ELSE dispatch(w.server, batch[i], BuiltinOutcome(batch[i]))
         \o (IF \E k \in 1..Len(dispatch(w.server, batch[i], BuiltinOutcome(batch[i]))) :
                   dispatch(w.server, batch[i], BuiltinOutcome(batch[i]))[k].isError
              THEN <<>> ELSE batchResponses_StopsAtError(w, batch, i + 1))

\* The responses handleBatchRequest collects from element i of the batch on:
\* an element that is neither a request nor a notification yields an error.
RECURSIVE batchResponses(_, _, _)
batchResponses(w, batch, i) ==
    IF i > Len(batch) THEN <<>>
    ELSE (IF batch[i].kind # "call"
          THEN <<createJsonRpcError(NullId,
                     RpcError(INVALID_REQUEST, "Invalid JSON-RPC 2.0 message in batch"))>>
          ELSE dispatch(w.server, batch[i], BuiltinOutcome(batch[i])))
         \o batchResponses(w, batch, i + 1)

handleBatchRequest(w, req) ==
    [w |-> w,
     http |-> Http(200, batchResponses(w, req.message.batch, 1),
                   SessionHeader(w, req.sessionId), 0)]

handlePostResponse_NoSessionCheck(w, req) ==
    IF w.transport.clientRequestAdapter /\ req.message.id # NullId
    THEN [w |-> [w EXCEPT !.adapter =
                    resolvePending(@, IF FalsyString(req.sessionId) THEN Undefined
                                      ELSE req.sessionId, req.message.id).a],
          http |-> Http(202, <<>>, Undefined, 0)]
    ELSE [w |-> w, http |-> Http(202, <<>>, Undefined, 0)]

\* handlePost of a body that is a JSON-RPC response.
handlePostResponse(w, req) ==
    IF w.transport.sessionAdapter /\ FalsyString(req.sessionId)
    THEN [w |-> w, http |-> respondToMissingSessionId]
    ELSE IF w.transport.clientRequestAdapter /\ req.message.id # NullId
    THEN [w |-> [w EXCEPT !.adapter =
                    resolvePending(@, IF FalsyString(req.sessionId) THEN Undefined
                                      ELSE req.sessionId, req.message.id).a],
          http |-> Http(202, <<>>, Undefined, 0)]
    ELSE [w |-> w, http |-> Http(202, <<>>, Undefined, 0)]

\* handleInitialize sets the server's `initialized' once the chain called it
\* with well-formed params.
handlePost(world, req) ==
    LET sessionId == req.sessionId
        message == req.message
        w == IF /\ message.kind = "call"
                /\ message.method = "initialize"
                /\ HandlerCalled(world.server, message)
                /\ isInitializeParams(message.params)
             THEN [world EXCEPT !.server.initialized = TRUE]
             ELSE world
        t == w.transport
        isNotification == message.id = AbsentId
        isInitializeRequest == message.method = "initialize"
        validation ==
            IF isInitializeRequest THEN <<>>
            ELSE validateProtocolHeader(getSessionProtocolVersion(w, sessionId),
                                        req.protocolHeader,
                                        IF isNotification THEN NullId ELSE message.id)
        responses == dispatch(w.server, message, BuiltinOutcome(message))
        newSessionId == randomUUID(t.uuids + 1)
        negotiatedVersion ==
            IF ~responses[1].isError /\ responses[1].body.kind = "initialize"
            THEN responses[1].body.protocolVersion
            ELSE V2025_06_18
        sessionMeta == [protocolVersion |-> negotiatedVersion,
                        clientCapabilities |-> message.params.capabilities]
    IN  CASE message.kind = "unparsable" ->
               [w |-> w,
                http |-> Http(400, <<createJsonRpcError(NullId,
                                        RpcError(PARSE_ERROR, "Parse error"))>>, Undefined, 0)]
          [] message.kind = "batch" ->
               IF getSessionProtocolVersion(w, sessionId) = V2025_03_26
               THEN handleBatchRequest(w, req)
               ELSE [w |-> w,
                     http |-> Http(400, <<createJsonRpcError(NullId,
                                 RpcError(INVALID_REQUEST, "Batch requests are not supported"))>>,
                                   Undefined, 0)]
          [] message.kind = "response" -> handlePostResponse(w, req)
          [] message.kind = "invalid" -> [w |-> w, http |-> respondToInvalidJsonRpc]
          [] OTHER ->
               IF validation # <<>> THEN [w |-> w, http |-> validation[1]]
               ELSE IF t.sessionAdapter /\ FalsyString(sessionId) /\ ~isInitializeRequest
               THEN [w |-> w, http |-> respondToMissingSessionId]
               ELSE IF ~isInitializeRequest /\ ~isNotification /\ req.acceptsSse
               THEN handlePostSse(w, req)
               ELSE IF Suspends(w, message)
               THEN [w |-> [w EXCEPT !.exchanges =
                               Append(@, NewExchange(w, req, FALSE,
                                         IF FalsyString(sessionId) THEN Undefined ELSE sessionId,
                                         0, <<>>))],
                     http |-> NoHttpResponse]
               ELSE IF isInitializeRequest /\ responses # <<>>
               THEN IF ~t.sessionAdapter
                    THEN [w |-> w, http |-> Http(200, responses, Undefined, 0)]
                    ELSE IF message.params.nullish
                    THEN [w |-> [w EXCEPT !.transport.uuids = @ + 1],
                          http |-> Http(400, <<createJsonRpcError(NullId,
                                        RpcError(PARSE_ERROR, "Parse error"))>>, Undefined, 0)]
                    ELSE [w |-> [w EXCEPT !.transport.uuids = @ + 1,
                                          !.store = storeCreate(@, newSessionId, sessionMeta)],
                          http |-> Http(200, responses, newSessionId, 0)]
               ELSE IF responses = <<>> THEN [w |-> w, http |-> Http(202, <<>>, Undefined, 0)]
               ELSE [w |-> w,
                     http |-> Http(200, responses,
                                   IF isInitializeRequest THEN Undefined
                                   ELSE SessionHeader(w, sessionId), 0)]

\* handleGet up to `await this.sessionAdapter.has(sessionId)': the response
\* that rejects the request, or nothing.
handleGetChecks(w, req) ==
    IF ~req.acceptsSse THEN <<Http(400, <<>>, Undefined, 0)>>
    ELSE IF req.protocolHeader # NoVersion /\ req.protocolHeader # V2025_06_18
    THEN <<Http(400, <<>>, Undefined, 0)>>
    ELSE IF ~w.transport.sessionAdapter THEN <<Http(405, <<>>, Undefined, 0)>>
    ELSE IF FalsyString(req.sessionId) \/ req.sessionId \notin DOMAIN w.store.sessions
    THEN <<Http(400, <<>>, Undefined, 0)>>
    ELSE <<>>

handleGetOpens_NoConflictCheck(w, req) ==
    LET t1 == createSSEStream(w.transport, "session", req.sessionId)
    IN  [w |-> [w EXCEPT !.transport =
                   [t1 EXCEPT !.sessionStreams = PutKey(@, req.sessionId, Len(t1.writers))]],
         http |-> NoHttpResponse, writer |-> Len(t1.writers),
         replayed |-> IF FalsyString(req.lastEventId) THEN [threw |-> FALSE, writes |-> <<>>]
                      ELSE replay(w.store, req.sessionId, req.lastEventId)]

\* handleGet from the conflict check to the call of replay: the stream is
\* created and registered, and replay has read the session's buffer.
handleGetOpens(w, req) ==
    LET t == w.transport
        t1 == createSSEStream(t, "session", req.sessionId)
        writer == Len(t1.writers)
        replayed == IF FalsyString(req.lastEventId) THEN [threw |-> FALSE, writes |-> <<>>]
                    ELSE replay(w.store, req.sessionId, req.lastEventId)
    IN  IF req.sessionId \in DOMAIN t.sessionStreams
        THEN [w |-> w, http |-> Http(409, <<>>, Undefined, 0), writer |-> 0,
              replayed |-> replayed]
        ELSE [w |-> [w EXCEPT !.transport =
                         [t1 EXCEPT !.sessionStreams = PutKey(@, req.sessionId, writer)]],
              http |-> NoHttpResponse, writer |-> writer, replayed |-> replayed]

handleGetReplays_LeavesStreamRegistered(w, req, writer, replayed) ==
    LET t == w.transport
        RECURSIVE writeAll(_, _)
        writeAll(tt, i) ==
            IF i > Len(replayed.writes) THEN tt
            ELSE writeAll(write(tt, writer, [replayed.writes[i].message EXCEPT
                                                 !.eventId = replayed.writes[i].id]), i + 1)
    IN  IF ~FalsyString(req.lastEventId)
        THEN IF replayed.threw
             THEN [w |-> w, http |-> Http(500, <<>>, Undefined, 0)]
             ELSE [w |-> [w EXCEPT !.transport = writeAll(t, 1)],
                   http |-> Http(200, <<>>, req.sessionId, writer)]
        ELSE [w |-> [w EXCEPT !.transport =
                         write(t, writer, Sse("notification", AbsentId, FALSE, Undefined))],
              http |-> Http(200, <<>>, req.sessionId, writer)]

\* handleGet after the stream was registered: the replayed events or the
\* ping are written and the stream is returned.
handleGetReplays(w, req, writer, replayed) ==
    LET t == w.transport
        RECURSIVE writeAll(_, _)
        writeAll(tt, i) ==
            IF i > Len(replayed.writes) THEN tt
            ELSE writeAll(write(tt, writer, [replayed.writes[i].message EXCEPT
                                                 !.eventId = replayed.writes[i].id]), i + 1)
    IN  IF ~FalsyString(req.lastEventId)
        THEN IF replayed.threw
             THEN [w |-> [w EXCEPT !.transport = end(t, writer)],
                   http |-> Http(500, <<>>, Undefined, 0)]
             ELSE [w |-> [w EXCEPT !.transport = writeAll(t, 1)],
                   http |-> Http(200, <<>>, req.sessionId, writer)]
        ELSE [w |-> [w EXCEPT !.transport =
                         write(t, writer, Sse("notification", AbsentId, FALSE, Undefined))],
              http |-> Http(200, <<>>, req.sessionId, writer)]

\* handleGet when no other handler runs between its steps.
handleGet(w, req) ==
    LET opened == handleGetOpens(w, req)
    IN  IF handleGetChecks(w, req) # <<>> THEN [w |-> w, http |-> handleGetChecks(w, req)[1]]
        ELSE IF opened.http # NoHttpResponse THEN [w |-> w, http |-> opened.http]
        ELSE handleGetReplays(opened.w, req, opened.writer, opened.replayed)

\* handleDelete up to `await this.sessionAdapter.delete(sessionId)': the
\* response that rejects the request, or the world after the streams of the
\* session were ended and the in-memory store deleted the session.
handleDeleteCleans(w, req) ==
    IF ~w.transport.sessionAdapter THEN [w |-> w, http |-> Http(405, <<>>, Undefined, 0)]
    ELSE IF FalsyString(req.sessionId) THEN [w |-> w, http |-> Http(400, <<>>, Undefined, 0)]
    ELSE [w |-> [w EXCEPT !.transport = cleanupSession(@, req.sessionId),
                          !.store = storeDelete(@, req.sessionId)],
          http |-> NoHttpResponse]

\* handleDelete when no other handler runs between its steps.
handleDelete(w, req) ==
    LET cleaned == handleDeleteCleans(w, req)
    IN  IF cleaned.http # NoHttpResponse THEN cleaned
        ELSE [w |-> cleaned.w, http |-> Http(200, <<>>, Undefined, 0)]

GLOBAL_NOTIFICATIONS ==
    {"notifications/tools/list_changed", "notifications/prompts/list_changed",
     "notifications/resources/list_changed"}

isGlobalNotification(method) == method \in GLOBAL_NOTIFICATIONS

RECURSIVE writeEach(_, _, _)
writeEach(t, ws, message) ==
    IF ws = {} THEN t
    ELSE LET x == CHOOSE y \in ws : TRUE IN writeEach(write(t, x, message), ws \ {x}, message)

notificationSender_ToOneStream(w, sessionId, method, relatedRequestId) ==
    LET t == w.transport
        message == Sse(method, relatedRequestId, FALSE, Undefined)
        streams == IF t.sessionAdapter
                   THEN {t.sessionStreams[sid] : sid \in DOMAIN t.sessionStreams}
                   ELSE {t.requestStreams[k] : k \in DOMAIN t.requestStreams}
    IN  IF streams = {} THEN w
        ELSE [w EXCEPT !.transport = write(t, CHOOSE wr \in streams : TRUE, message)]

\* The notification sender the transport binds to the server.  A notification
\* is kept as its method and, for a progress notification, the request it
\* reports on (its progress token); the session store keeps the same value.
notificationSender(w, sessionId, method, relatedRequestId) ==
    LET t == w.transport
        named == ~FalsyString(sessionId)
        message == Sse(method, relatedRequestId, FALSE, Undefined)
        persisted == IF named THEN appendEvent(w.store, sessionId, SSE_STREAM_ID, message)
                     ELSE [st |-> w.store, eventId |-> Undefined]
        key == requestStreamKey(sessionId, relatedRequestId)
        broadcast == ~named \/ isGlobalNotification(method)
    IN  IF t.sessionAdapter
        THEN IF named /\ relatedRequestId # AbsentId /\ key \in DOMAIN t.requestStreams
             THEN [w EXCEPT !.store = persisted.st,
                            !.transport = write(t, t.requestStreams[key], message)]
             ELSE LET t1 == IF named /\ sessionId \in DOMAIN t.sessionStreams
                            THEN write(t, t.sessionStreams[sessionId],
                                       [message EXCEPT !.eventId = persisted.eventId])
                            ELSE t
                      others == {t1.sessionStreams[sid] :
                                    sid \in DOMAIN t1.sessionStreams \ {sessionId}}
                  IN  [w EXCEPT !.store = persisted.st,
                                !.transport = IF broadcast THEN writeEach(t1, others, message)
                                              ELSE t1]
        ELSE LET t1 == IF /\ relatedRequestId # AbsentId
                          /\ ~Falsy(relatedRequestId)
                          /\ named
                          /\ key \in DOMAIN t.requestStreams
                       THEN write(t, t.requestStreams[key], message)
                       ELSE t
                 keys == {k \in DOMAIN t1.requestStreams :
                             ~named \/ ~startsWith(k, sessionId \o <<":">>)}
             IN  [w EXCEPT !.transport =
                     IF broadcast
                     THEN writeEach(t1, {t1.requestStreams[k] : k \in keys}, message)
                     ELSE t1]

\* ctx.progress of the call x, whose request carries a progress token: the
\* context has it only when the call has a session id.
progress(w, x) ==
    IF x.sessionId = Undefined THEN w
    ELSE notificationSender(w, x.sessionId, "notifications/progress",
                            IF x.request.message.id = NullId THEN AbsentId
                            ELSE x.request.message.id)

DefaultServer == [middlewares |-> <<>>, onError |-> "none", initialized |-> FALSE]

NoMessage == [kind |-> "none", id |-> AbsentId, method |-> "", params |-> [isObject |-> FALSE],
              batch |-> <<>>]

NoHttp ==
    [op |-> "none", message |-> NoMessage, sessionId |-> Undefined,
     response |-> NoHttpResponse]

\* What is kept of an answered request: the message of a POST that is an
\* initialize request, a client response or a batch, and the session id of a
\* DELETE.
Recorded(op, req) ==
    IF op = "POST" /\ (req.message.kind \in {"response", "batch"}
                        \/ (req.message.kind = "call" /\ req.message.method = "initialize"))
    THEN req.message
    ELSE NoMessage

\* The transport part of the state while another component is exercised alone.
TransportIdle ==
    /\ transport = NewTransport(FALSE, FALSE)
    /\ mcpServer = DefaultServer
    /\ exchanges = <<>>
    /\ lastHttp = NoHttp

(***************************************************************************)
(* A driver of _dispatch: any request or notification, on any server       *)
(* configuration.                                                          *)
(***************************************************************************)
MaxMiddlewares == 2

MiddlewareKinds == {"next", "skip", "respond", "throw", "throwAfterNext"}

OnErrorKinds == {"none", "custom", "undefined", "throws"}

MiddlewareChains ==
    UNION {[1..n -> MiddlewareKinds] : n \in 0..MaxMiddlewares}

JsonRpcIds ==
    {NullId, [t |-> "number", v |-> <<"0">>], [t |-> "number", v |-> <<"1">>],
     [t |-> "string", v |-> <<"1">>], [t |-> "string", v |-> <<>>]}

Methods == RegisteredMethods \cup {"toString", "__proto__", "no/such/method"}

InitializeParamsInputs ==
    {[isObject |-> TRUE, versionIsString |-> TRUE, restWellFormed |-> TRUE,
      protocolVersion |-> v, capabilities |-> {}]
        : v \in {V2025_03_26, V2025_06_18, "2024-01-01", ""}}
    \cup {[isObject |-> FALSE, versionIsString |-> FALSE, restWellFormed |-> FALSE,
           protocolVersion |-> "", capabilities |-> {}],
          [isObject |-> TRUE, versionIsString |-> FALSE, restWellFormed |-> TRUE,
           protocolVersion |-> "", capabilities |-> {}]}

InitDispatch ==
    /\ \E mws \in MiddlewareChains, h \in OnErrorKinds, id \in JsonRpcIds \cup {AbsentId},
          method \in Methods, params \in InitializeParamsInputs :
          \E outcome \in HandlerOutcomes(method, params) :
              dispatched = [server |-> [middlewares |-> mws, onError |-> h],
                            message |-> [id |-> id, method |-> method, params |-> params],
                            outcome |-> outcome, calls |-> 0, responses |-> <<>>]
    /\ PendingIdle
    /\ StoreIdle
    /\ TransportIdle

DispatchCall ==
    /\ dispatched.calls = 0
    /\ dispatched' = [dispatched EXCEPT
                         !.calls = 1,
                         !.responses = dispatch(dispatched.server, dispatched.message,
                                                dispatched.outcome)]
    /\ UNCHANGED <<pendingVars, storeVars, transportVars>>

SpecDispatch == InitDispatch /\ [][DispatchCall]_vars

(***************************************************************************)
(* A driver of the session store: sessions are created and deleted, events *)
(* appended to their streams and replayed.                                 *)
(***************************************************************************)
MaxBufferSize == 2

MaxSequence == 3

StoreSessionIds == {<<"x">>}

StreamIds == {<<"s">>, <<"t", "#", "s">>}

Messages == {"m1", "m2"}

LastEventIds ==
    {formatEventId(n, s) : n \in 1..MaxSequence, s \in StreamIds}
        \cup {<<"s">>, <<"0", "#", "s">>}

InitStore ==
    /\ \E m \in 0..MaxBufferSize : store = NewStore(m)
    /\ appended = <<>>
    /\ storeCall = NoStoreCall
    /\ PendingIdle
    /\ DispatchIdle
    /\ TransportIdle

StoreCreate ==
    \E id \in StoreSessionIds :
        /\ id \notin DOMAIN store.sessions
        /\ store' = storeCreate(store, id, [protocolVersion |-> <<>>])
        /\ appended' = PutKey(appended, id, [s \in StreamIds |-> <<>>])
        /\ storeCall' = [NoStoreCall EXCEPT !.op = "create", !.id = id]
        /\ UNCHANGED <<pendingVars, dispatchVars, transportVars>>

StoreDelete ==
    \E id \in StoreSessionIds :
        /\ store' = storeDelete(store, id)
        /\ appended' = RemoveKey(appended, id)
        /\ storeCall' = [NoStoreCall EXCEPT !.op = "delete", !.id = id]
        /\ UNCHANGED <<pendingVars, dispatchVars, transportVars>>

StoreAppendEvent ==
    \E id \in StoreSessionIds, s \in StreamIds, m \in Messages :
        LET res == appendEvent(store, id, s, m)
        IN  /\ id \in DOMAIN store.sessions => Len(appended[id][s]) < MaxSequence
            /\ store' = res.st
            /\ appended' = IF id \in DOMAIN store.sessions
                           THEN [appended EXCEPT ![id][s] =
                                    Append(@, [id |-> res.eventId, message |-> m])]
                           ELSE appended
            /\ storeCall' = [NoStoreCall EXCEPT !.op = "appendEvent", !.id = id,
                                                !.lastEventId = res.eventId]
            /\ UNCHANGED <<pendingVars, dispatchVars, transportVars>>

StoreReplay ==
    \E id \in StoreSessionIds, e \in LastEventIds :
        LET res == replay(store, id, e)
        IN  /\ storeCall' = [op |-> "replay", id |-> id, lastEventId |-> e,
                             threw |-> res.threw, writes |-> res.writes]
            /\ UNCHANGED <<store, appended>>
            /\ UNCHANGED <<pendingVars, dispatchVars, transportVars>>

NextStore ==
    \/ StoreCreate
    \/ StoreDelete
    \/ StoreAppendEvent
    \/ StoreReplay

SpecStore == InitStore /\ [][NextStore]_vars

(***************************************************************************)
(* A driver of the adapter: any sequence of createPending, resolvePending, *)
(* rejectPending calls and timer expiries.                                 *)
(***************************************************************************)
MaxHandles == 2

TimeoutMs == 1

SessionIdInputs == {Undefined, <<>>, <<"a">>}

RequestIdInputs ==
    { [t |-> "number", v |-> <<"1">>], [t |-> "string", v |-> <<"1">>] }

TimeoutInputs == {NoNumber, <<0>>, <<TimeoutMs>>}

InitPending ==
    /\ \E d \in TimeoutInputs : adapter = NewAdapter(d)
    /\ lastCall = NoCall
    /\ StoreIdle
    /\ DispatchIdle
    /\ TransportIdle

CreatePendingCall ==
    \E s \in SessionIdInputs, r \in RequestIdInputs, t \in TimeoutInputs :
        /\ Len(adapter.promises) < MaxHandles
        /\ adapter' = createPending(adapter, s, r, [timeout_ms |-> t])
        /\ lastCall' = [op |-> "create", key |-> makeKey(s, r), ret |-> TRUE]
        /\ UNCHANGED <<storeVars, dispatchVars, transportVars>>

ResolvePendingCall ==
    \E s \in SessionIdInputs, r \in RequestIdInputs :
        LET res == resolvePending(adapter, s, r)
        IN  /\ adapter' = res.a
            /\ lastCall' = [op |-> "resolve", key |-> makeKey(s, r), ret |-> res.ret]
            /\ UNCHANGED <<storeVars, dispatchVars, transportVars>>

RejectPendingCall ==
    \E s \in SessionIdInputs, r \in RequestIdInputs :
        LET res == rejectPending(adapter, s, r, "explicit")
        IN  /\ adapter' = res.a
            /\ lastCall' = [op |-> "reject", key |-> makeKey(s, r), ret |-> res.ret]
            /\ UNCHANGED <<storeVars, dispatchVars, transportVars>>

TimerFires(h) ==
    /\ h \in 1..Len(adapter.promises)
    /\ adapter.promises[h].timer = "armed"
    /\ adapter' = timeoutCallback(adapter, h)
    /\ lastCall' = [op |-> "timeout", key |-> adapter.promises[h].key, ret |-> TRUE]
    /\ UNCHANGED <<storeVars, dispatchVars, transportVars>>

NextPending ==
    \/ CreatePendingCall
    \/ ResolvePendingCall
    \/ RejectPendingCall
    \/ \E h \in 1..MaxHandles : TimerFires(h)

SpecPending == InitPending /\ [][NextPending]_vars

\* Timers of the host runtime expire: an armed timer that is not cleared fires.
FairSpecPending ==
    SpecPending /\ \A h \in 1..(MaxHandles + 1) : WF_vars(TimerFires(h))

(***************************************************************************)
(* The transport bound to a server: clients POST messages, open and cancel *)
(* streams and DELETE sessions; tool handlers run, ask the client and      *)
(* finish; timers of pending client requests expire.                       *)
(***************************************************************************)
MaxUuids == 1

MaxExchanges == 1

MaxWriters == 1

TransportSessionIds == {Undefined} \cup {randomUUID(n) : n \in 1..MaxUuids}

TransportRequestIds == {[t |-> "string", v |-> <<"1">>], NullId}

ElicitIds == {[t |-> "string", v |-> <<"e">>]}

ProtocolHeaders == {NoVersion, V2025_03_26, V2025_06_18, "1999-01-01"}

Params(nullish, versionIsString, protocolVersion, capabilities) ==
    [isObject |-> ~nullish, versionIsString |-> versionIsString, restWellFormed |-> TRUE,
     protocolVersion |-> protocolVersion, capabilities |-> capabilities, nullish |-> nullish]

NoParams == Params(TRUE, FALSE, "", {})

\* initialize params: well-formed ones for any version, a missing params
\* member, and an object whose protocolVersion is not a string.
TransportInitializeParams ==
    {Params(FALSE, TRUE, v, {}) : v \in {V2025_03_26, V2025_06_18, "2024-01-01"}}
        \cup {NoParams, Params(FALSE, FALSE, "", {})}

\* initialize params of a client that does or does not support elicitation.
ElicitationInitializeParams ==
    {Params(FALSE, TRUE, V2025_03_26, c) : c \in {{}, {"elicitation"}, {"sampling"}}}

Message(kind, id, method, params, batch) ==
    [kind |-> kind, id |-> id, method |-> method, params |-> params, batch |-> batch]

\* The elements of a batch: a request that succeeds, one that fails, a
\* notification and a value that is neither a request nor a notification.
BatchItems ==
    {Message("call", [t |-> "string", v |-> <<"1">>], "ping", NoParams, <<>>),
     Message("call", [t |-> "string", v |-> <<"2">>], "resources/subscribe", NoParams, <<>>),
     Message("call", AbsentId, "notifications/initialized", NoParams, <<>>),
     Message("invalid", NullId, "", NoParams, <<>>)}

MaxBatch == 2

BatchMessages ==
    {Message("batch", NullId, "", NoParams, b) :
        b \in UNION {[1..n -> BatchItems] : n \in 0..MaxBatch}}

InitializeMessages ==
    {Message("call", id, "initialize", p, <<>>) :
        id \in {[t |-> "string", v |-> <<"1">>], AbsentId}, p \in TransportInitializeParams}

ElicitationInitializeMessages ==
    {Message("call", [t |-> "string", v |-> <<"1">>], "initialize", p, <<>>) : p \in ElicitationInitializeParams}

\* Requests, notifications, responses, batches and malformed bodies whose
\* handling never waits for user code.
ResponseMessages ==
    {Message("response", id, "", NoParams, <<>>) : id \in ElicitIds \cup {NullId}}

OtherMessages ==
    {Message("call", id, m, NoParams, <<>>) :
        id \in TransportRequestIds \cup {AbsentId}, m \in {"ping"}}
    \cup ResponseMessages
    \cup {Message("batch", NullId, "", NoParams, <<>>)}
    \cup {Message("invalid", NullId, "", NoParams, <<>>),
          Message("unparsable", NullId, "", NoParams, <<>>)}

\* tools/call params that name a registered tool.
ToolsCallParams == Params(FALSE, FALSE, "", {})

ToolsCallMessages ==
    {Message("call", id, "tools/call", ToolsCallParams, <<>>) :
        id \in TransportRequestIds \cup {AbsentId}}

ToolBehaviours == {"finish", "elicit"}

\* The headers and the handler behaviour matter only where handlePost reads them.
IsCall(message) == message.kind = "call" /\ message.method # "initialize"

SessionIdsFor(message) ==
    IF message.kind \in {"invalid", "unparsable"} \/ message.method = "initialize"
    THEN {Undefined} ELSE TransportSessionIds

AcceptsFor(message) ==
    IF IsCall(message) /\ message.id # AbsentId THEN BOOLEAN ELSE {FALSE}

ProtocolHeadersFor(message, protocolHeaders) ==
    IF IsCall(message) THEN protocolHeaders ELSE {NoVersion}

BehavioursFor(message) ==
    IF message.method = "tools/call" THEN ToolBehaviours \cup {"sample"} ELSE {"finish"}

TransportLastEventIds == {Undefined, formatEventId(1, SSE_STREAM_ID), <<"x">>}

World ==
    [transport |-> transport, store |-> store, adapter |-> adapter, server |-> mcpServer,
     exchanges |-> exchanges]

\* The state after a handler returned r.
Becomes(w, op, req, http) ==
    /\ transport' = w.transport
    /\ store' = w.store
    /\ adapter' = w.adapter
    /\ mcpServer' = w.server
    /\ exchanges' = w.exchanges
    /\ lastHttp' = IF http = NoHttpResponse THEN lastHttp
                   ELSE [op |-> op, message |-> Recorded(op, req),
                         sessionId |-> IF op = "DELETE" THEN req.sessionId ELSE Undefined,
                         response |-> http]
    /\ UNCHANGED <<lastCall, appended, storeCall, dispatched>>

\* A transport constructed with or without a session adapter and with or
\* without a client request adapter, whose default timeout is one of `timeouts'.
InitTransport(timeouts) ==
    /\ \E sessionAdapter \in BOOLEAN, clientRequestAdapter \in BOOLEAN,
          defaultTimeoutMs \in timeouts \cup {NoNumber} :
          /\ (~clientRequestAdapter => defaultTimeoutMs = NoNumber)
          /\ transport = NewTransport(sessionAdapter, clientRequestAdapter)
          /\ adapter = NewAdapter(defaultTimeoutMs)
    /\ store = NewStore(MaxBufferSize)
    /\ mcpServer = DefaultServer
    /\ exchanges = <<>>
    /\ lastHttp = NoHttp
    /\ lastCall = NoCall
    /\ appended = <<>>
    /\ storeCall = NoStoreCall
    /\ DispatchIdle

Post(messages, protocolHeaders, behaviours) ==
    \E message \in messages :
        \E sessionId \in SessionIdsFor(message), acceptsSse \in AcceptsFor(message), protocolHeader \in ProtocolHeadersFor(message, protocolHeaders),
           behaviour \in BehavioursFor(message) \cap behaviours :
            \E req \in {[sessionId |-> sessionId, message |-> message,
                          acceptsSse |-> acceptsSse, protocolHeader |-> protocolHeader,
                          behaviour |-> behaviour]} :
              \E r \in {handlePost(World, req)} :
                /\ r.w.transport.uuids <= MaxUuids
                /\ Len(r.w.exchanges) <= MaxExchanges
                /\ Len(r.w.transport.writers) <= MaxWriters
                /\ Becomes(r.w, "POST", req, r.http)

Get(protocolHeaders, lastEventIds) ==
    \E sessionId \in TransportSessionIds, acceptsSse \in BOOLEAN,
       protocolHeader \in protocolHeaders, lastEventId \in lastEventIds :
        \E req \in {[sessionId |-> sessionId, acceptsSse |-> acceptsSse,
                      protocolHeader |-> protocolHeader, lastEventId |-> lastEventId]} :
          \E r \in {handleGet(World, req)} :
            /\ ~acceptsSse => protocolHeader = NoVersion
            /\ protocolHeader \notin {NoVersion, V2025_06_18} => lastEventId = Undefined
            /\ Len(r.w.transport.writers) <= MaxWriters
            /\ Becomes(r.w, "GET", req, r.http)

Delete ==
    \E sessionId \in TransportSessionIds :
        \E req \in {[sessionId |-> sessionId]} :
          \E r \in {handleDelete(World, req)} :
            Becomes(r.w, "DELETE", req, r.http)

\* The client closes the connection of an SSE stream: the stream's cancel().
Cancel ==
    \E wr \in 1..Len(transport.writers) :
        /\ ~transport.writers[wr].closed
        /\ transport' = end(transport, wr)
        /\ UNCHANGED <<adapter, store, mcpServer, exchanges, lastHttp,
                       lastCall, appended, storeCall, dispatched>>

\* The tool handler of call e finished with `outcome' in the world w.
FinishesIn(w, e, outcome) ==
    \E x \in {exchanges[e]} : \E c \in {complete(w, exchanges[e], outcome)} :
        Becomes([w EXCEPT !.transport = c.transport,
                          !.exchanges[e].pc = "done",
                          !.exchanges[e].delivered = c.delivered],
                "POST", x.request, c.http)

Finishes(e, outcome) == FinishesIn(World, e, outcome)

\* The tool handler of call e runs: it finishes, or it calls ctx.elicit and
\* awaits the client's response.
HandlerRuns(e) ==
    /\ e \in 1..Len(exchanges)
    /\ exchanges[e].pc = "running"
    /\ IF exchanges[e].request.behaviour \in {"elicit", "sample"}
       THEN \E elicitId \in ElicitIds, timeout_ms \in {NoNumber} :
              \E r \in {IF exchanges[e].request.behaviour = "elicit"
                        THEN elicit(World, exchanges[e], elicitId, timeout_ms)
                        ELSE sample(World, exchanges[e], elicitId, timeout_ms)} :
                  IF r.threw
                  THEN FinishesIn(r.w, e, Throws(r.error))
                  ELSE Becomes([r.w EXCEPT !.exchanges[e].pc = "awaiting",
                                           !.exchanges[e].promise = r.promise],
                               "POST", exchanges[e].request, NoHttpResponse)
       ELSE \E outcome \in HandlerOutcomes("tools/call", ToolsCallParams) : Finishes(e, outcome)

\* The promise that call e awaits was settled: ctx.elicit returns the result
\* or throws, and the handler finishes.
HandlerResumes(e) ==
    /\ e \in 1..Len(exchanges)
    /\ exchanges[e].pc = "awaiting"
    /\ adapter.promises[exchanges[e].promise].state # "pending"
    /\ IF adapter.promises[exchanges[e].promise].state = "resolved"
       THEN \E outcome \in HandlerOutcomes("tools/call", ToolsCallParams) : Finishes(e, outcome)
       ELSE Finishes(e, Throws(PlainError("client request failed")))

TransportTimerFires(h) ==
    /\ h \in 1..Len(adapter.promises)
    /\ adapter.promises[h].timer = "armed"
    /\ adapter' = timeoutCallback(adapter, h)
    /\ UNCHANGED <<transport, store, mcpServer, exchanges, lastHttp,
                   lastCall, appended, storeCall, dispatched>>

\* Sessions and streams: every request whose handling does not wait for user code.
Next ==
    \/ Post(InitializeMessages, ProtocolHeaders, ToolBehaviours)
    \/ Post(OtherMessages, ProtocolHeaders, ToolBehaviours)
    \/ Get(ProtocolHeaders, TransportLastEventIds)
    \/ Delete
    \/ Cancel

Init == InitTransport({})

Spec == Init /\ [][Next]_vars

\* Tool calls: sessions are initialized, streams opened and tools/call requests
\* sent whose handlers run, ask the client and finish; the client answers or
\* not.  The client sends no MCP-Protocol-Version header, as a session of
\* version 2025-03-26 allows.
NextCalls ==
    \/ Post(ElicitationInitializeMessages, {NoVersion}, ToolBehaviours)
    \/ Post(ToolsCallMessages, {NoVersion}, ToolBehaviours \cup {"sample"})
    \/ Post(ResponseMessages, {NoVersion}, ToolBehaviours)
    \/ Get({NoVersion}, {Undefined})
    \/ Delete
    \/ Cancel
    \/ \E e \in 1..MaxExchanges : HandlerRuns(e)
    \/ \E e \in 1..MaxExchanges : HandlerResumes(e)
    \/ \E h \in 1..MaxExchanges : TransportTimerFires(h)

InitCalls == InitTransport({<<TimeoutMs>>})

SpecCalls == InitCalls /\ [][NextCalls]_vars

\* A started tool handler keeps running, a handler whose awaited promise is
\* settled resumes, and an armed timer that is not cleared fires.  Nothing
\* obliges a client to send anything.
FairSpecCalls ==
    /\ SpecCalls
    /\ \A e \in 1..(MaxExchanges + 1) : WF_vars(HandlerRuns(e)) /\ WF_vars(HandlerResumes(e))
    /\ \A h \in 1..(MaxExchanges + 1) : WF_vars(TransportTimerFires(h))

\* Batches: sessions of either version are initialized and arrays are POSTed
\* with the id of a session, of none or of an unknown one.
NextBatches ==
    \/ Post(InitializeMessages, {NoVersion}, ToolBehaviours)
    \/ Post(BatchMessages, {NoVersion}, ToolBehaviours)

SpecBatches == Init /\ [][NextBatches]_vars

\* Concurrent exchanges: the handlers of GET and DELETE stop at their awaits,
\* and the handler of any other exchange may run before they go on.  A GET
\* or DELETE in flight is kept in `exchanges' until it has answered.  A
\* client names no session before the server generated its id.
\* The session ids a client can send: none, or one that was generated.
KnownSessionIds == {Undefined} \cup {randomUUID(n) : n \in 1..transport.uuids}

Without(seq, e) == [i \in 1..(Len(seq) - 1) |-> IF i < e THEN seq[i] ELSE seq[i + 1]]

InFlight(op, pc, req, writer, replayed) ==
    [op |-> op, pc |-> pc, request |-> req, writer |-> writer, replayed |-> replayed]

GetBegins ==
    \E sessionId \in KnownSessionIds, lastEventId \in {Undefined, <<"x">>} :
        \E req \in {[sessionId |-> sessionId, acceptsSse |-> TRUE,
                      protocolHeader |-> NoVersion, lastEventId |-> lastEventId]} :
            /\ Len(exchanges) <= MaxExchanges
            /\ IF handleGetChecks(World, req) # <<>>
               THEN Becomes(World, "GET", req, handleGetChecks(World, req)[1])
               ELSE Becomes([World EXCEPT !.exchanges =
                                Append(@, InFlight("GET", "opening", req, 0, <<>>))],
                            "GET", req, NoHttpResponse)

GetOpens(e) ==
    /\ e \in 1..Len(exchanges)
    /\ exchanges[e].pc = "opening"
    /\ \E x \in {exchanges[e]} : \E r \in {handleGetOpens(World, exchanges[e].request)} :
          /\ Len(r.w.transport.writers) <= MaxWriters + 1
          /\ IF r.http # NoHttpResponse
             THEN Becomes([r.w EXCEPT !.exchanges = Without(@, e)], "GET", x.request, r.http)
             ELSE Becomes([r.w EXCEPT !.exchanges[e] =
                              InFlight("GET", "replaying", x.request, r.writer, r.replayed)],
                          "GET", x.request, NoHttpResponse)

GetReplays(e) ==
    /\ e \in 1..Len(exchanges)
    /\ exchanges[e].pc = "replaying"
    /\ \E x \in {exchanges[e]} :
          \E r \in {handleGetReplays(World, x.request, x.writer, x.replayed)} :
              Becomes([r.w EXCEPT !.exchanges = Without(@, e)], "GET", x.request, r.http)

DeleteBegins ==
    \E sessionId \in KnownSessionIds :
        \E req \in {[sessionId |-> sessionId]} : \E r \in {handleDeleteCleans(World, req)} :
            /\ Len(exchanges) <= MaxExchanges
            /\ IF r.http # NoHttpResponse
               THEN Becomes(r.w, "DELETE", req, r.http)
               ELSE Becomes([r.w EXCEPT !.exchanges =
                                Append(@, InFlight("DELETE", "deleting", req, 0, <<>>))],
                            "DELETE", req, NoHttpResponse)

DeleteCompletes(e) ==
    /\ e \in 1..Len(exchanges)
    /\ exchanges[e].pc = "deleting"
    /\ Becomes([World EXCEPT !.exchanges = Without(@, e)], "DELETE", exchanges[e].request,
               Http(200, <<>>, Undefined, 0))

NextStreams ==
    \/ Post(ElicitationInitializeMessages, {NoVersion}, {"finish"})
    \/ Post(ToolsCallMessages, {NoVersion}, {"finish"})
    \/ GetBegins
    \/ \E e \in 1..(MaxExchanges + 1) : GetOpens(e)
    \/ \E e \in 1..(MaxExchanges + 1) : GetReplays(e)
    \/ DeleteBegins
    \/ \E e \in 1..(MaxExchanges + 1) : DeleteCompletes(e)
    \/ Cancel
    \/ \E e \in 1..(MaxExchanges + 1) : HandlerRuns(e)

SpecStreams == Init /\ [][NextStreams]_vars

(***************************************************************************)
(* Notifications: several tool calls are in flight at once, their handlers  *)
(* report progress, the server announces a changed tool list, and clients  *)
(* open, cancel and delete streams and sessions.                           *)
(***************************************************************************)
MaxRouted == 2

RoutedRequestIds ==
    {[t |-> "number", v |-> <<"0">>], [t |-> "string", v |-> <<"0">>],
     [t |-> "string", v |-> <<"x", ":", "0">>]}

RoutedMessages ==
    {Message("call", id, "tools/call", ToolsCallParams, <<>>) : id \in RoutedRequestIds}
    \cup {Message("call", [t |-> "string", v |-> <<"1">>], "initialize",
                   Params(FALSE, TRUE, V2025_03_26, {}), <<>>)}

\* The session ids the transport has generated so far.
IssuedSessionIds == {randomUUID(n) : n \in 1..transport.uuids}

\* The state after a step that left the world w; the last HTTP response is
\* not kept here.
Routes(w) ==
    /\ transport' = w.transport
    /\ store' = w.store
    /\ mcpServer' = w.server
    /\ exchanges' = w.exchanges
    /\ UNCHANGED <<adapter, lastHttp, lastCall, appended, storeCall, dispatched>>

\* The client initializes, or calls a tool with a progress token and accepts
\* an event stream; it names a session it was given, if it was given one.
RoutedPost ==
    \E message \in RoutedMessages :
        \E sessionId \in IF IsCall(message) /\ transport.sessionAdapter
                          THEN IssuedSessionIds ELSE {Undefined} :
            \E req \in {[sessionId |-> sessionId, message |-> message,
                          acceptsSse |-> IsCall(message), protocolHeader |-> NoVersion,
                          behaviour |-> IF IsCall(message) THEN "progress" ELSE "finish"]} :
              \E r \in {handlePost(World, req)} :
                /\ r.w.transport.uuids <= MaxRouted
                /\ Len(r.w.exchanges) <= MaxRouted
                /\ Len(r.w.transport.writers) <= MaxRouted
                /\ Routes(r.w)

RoutedGet ==
    \E sessionId \in IssuedSessionIds,
       lastEventId \in {Undefined, formatEventId(1, SSE_STREAM_ID)} :
        \E req \in {[sessionId |-> sessionId, acceptsSse |-> TRUE,
                      protocolHeader |-> NoVersion, lastEventId |-> lastEventId]} :
          \E r \in {handleGet(World, req)} :
            /\ Len(r.w.transport.writers) <= MaxRouted
            /\ Routes(r.w)

\* A DELETE names a session id the transport generated, or any other text.
RoutedDelete ==
    \E sessionId \in IssuedSessionIds \cup {u \o <<":", "x">> : u \in IssuedSessionIds} :
        \E req \in {[sessionId |-> sessionId]} :
          \E r \in {handleDelete(World, req)} :
            Routes(r.w)

\* The tool handler of call e, whose request carries a progress token,
\* calls ctx.progress.
HandlerReports(e) ==
    /\ e \in 1..Len(exchanges)
    /\ exchanges[e].pc = "running"
    /\ exchanges[e].request.behaviour = "progress"
    /\ Routes([progress(World, exchanges[e]) EXCEPT !.exchanges[e].pc = "reported"])

\* The tool handler of call e returns its result.
HandlerReturns(e) ==
    /\ e \in 1..Len(exchanges)
    /\ exchanges[e].pc \in {"running", "reported"}
    /\ \E c \in {complete(World, exchanges[e], Returns([kind |-> "tool"]))} :
          Routes([World EXCEPT !.transport = c.transport,
                               !.exchanges[e].pc = "done",
                               !.exchanges[e].delivered = c.delivered])

IsListChanged(message) == message.type \in GLOBAL_NOTIFICATIONS

\* A tool is registered on the initialized server, which announces the
\* changed list; it is announced to a stream at most once here.
ListChanged ==
    /\ mcpServer.initialized
    /\ \A wr \in 1..Len(transport.writers) :
          \A i \in 1..Len(transport.writers[wr].out) :
              ~IsListChanged(transport.writers[wr].out[i])
    /\ Routes(notificationSender(World, Undefined, "notifications/tools/list_changed",
                                 AbsentId))

NextNotifications ==
    \/ RoutedPost
    \/ RoutedGet
    \/ RoutedDelete
    \/ Cancel
    \/ \E e \in 1..MaxRouted : HandlerReports(e)
    \/ \E e \in 1..MaxRouted : HandlerReturns(e)
    \/ ListChanged

InitNotifications ==
    /\ \E sessionAdapter \in BOOLEAN : transport = NewTransport(sessionAdapter, FALSE)
    /\ adapter = NewAdapter(NoNumber)
    /\ store = NewStore(MaxBufferSize)
    /\ mcpServer = DefaultServer
    /\ exchanges = <<>>
    /\ lastHttp = NoHttp
    /\ lastCall = NoCall
    /\ appended = <<>>
    /\ storeCall = NoStoreCall
    /\ DispatchIdle

SpecNotifications == InitNotifications /\ [][NextNotifications]_vars

(***************************************************************************)
(* core.ts: the registries of tools, prompts and resources, composition    *)
(* with group(), and the handlers of tools/call, prompts/get and           *)
(* resources/read.  A handler is known by the server whose code registered *)
(* it ("fn") and by whether child middlewares were wrapped around it.      *)
(***************************************************************************)
\* A server with empty registries, with or without a schema adapter.
NewServer(schemaAdapter) ==
    [middlewares |-> <<>>, onError |-> "none", schemaAdapter |-> schemaAdapter,
     tools |-> <<>>, prompts |-> <<>>, resources |-> <<>>,
     initialized |-> FALSE, sent |-> <<>>]

\* An initialized server hands the notification to its notification sender
\* ("sent" keeps what the sender was called with); before that it does not.
listChanged(server, method) ==
    IF server.initialized THEN [server EXCEPT !.sent = Append(@, method)] ELSE server

\* validation.ts resolveSchema.  A schema is absent ("none"), a plain JSON
\* Schema object ("plain") or a Standard Schema ("standard"); only a Standard
\* Schema yields a validator.
resolveSchema(schema, schemaAdapter) ==
    IF schema = "none"
    THEN [threw |-> FALSE, resolvedSchema |-> "object", validator |-> "none"]
    ELSE IF schema = "standard"
    THEN IF ~schemaAdapter
         THEN [threw |-> TRUE, resolvedSchema |-> "none", validator |-> "none"]
         ELSE [threw |-> FALSE, resolvedSchema |-> "converted", validator |-> "standard"]
    ELSE [threw |-> FALSE, resolvedSchema |-> schema, validator |-> "none"]

\* createValidationFunction with a validator that requires the property a:
\* the arguments {a: 5} ("a5") pass, the arguments {} ("empty") and missing
\* arguments ("absent") have issues.
createValidationFunction(validator, input) ==
    IF validator = "standard"
    THEN IF input = "a5" THEN Returns([kind |-> "validated"])
         ELSE Throws(RpcError(INVALID_PARAMS, "Validation failed"))
    ELSE Throws(RpcError(INVALID_PARAMS, "Invalid validator"))

\* tool(): a registration under a name that exists replaces the entry; a
\* Standard Schema without a schema adapter, as input or as output schema,
\* throws and registers nothing.
tool(server, name, schema, outputSchema, fn) ==
    LET r == resolveSchema(schema, server.schemaAdapter)
        outputSchemaResolved == resolveSchema(outputSchema, server.schemaAdapter)
    IN  IF r.threw \/ outputSchemaResolved.threw THEN server
        ELSE listChanged(
             [server EXCEPT !.tools =
                 PutKey(@, name, [type |-> "tool", name |-> name,
                                  handler |-> [fn |-> fn, wrapped |-> FALSE, mws |-> <<>>],
                                  validator |-> r.validator,
                                  outputValidator |-> outputSchemaResolved.validator,
                                  inputSchema |-> r.resolvedSchema])],
             "notifications/tools/list_changed")

\* prompt(): resolveSchema is called only when a schema is given.
prompt(server, name, schema, fn) ==
    LET r == IF schema = "none"
             THEN [threw |-> FALSE, resolvedSchema |-> "none", validator |-> "none"]
             ELSE resolveSchema(schema, server.schemaAdapter)
    IN  IF r.threw THEN server
        ELSE listChanged(
             [server EXCEPT !.prompts =
                 PutKey(@, name, [type |-> "prompt", name |-> name,
                                  handler |-> [fn |-> fn, wrapped |-> FALSE, mws |-> <<>>],
                                  validator |-> r.validator,
                                  inputSchema |-> r.resolvedSchema])],
             "notifications/prompts/list_changed")

\* resource(): a template without "{" is a static resource.
resource(server, template, fn) ==
    listChanged(
    [server EXCEPT !.resources =
        PutKey(@, template,
               [type |-> IF \E i \in 1..Len(template) : template[i] = "{"
                         THEN "resource_template" ELSE "resource",
                name |-> template,
                handler |-> [fn |-> fn, wrapped |-> FALSE, mws |-> <<>>],
                validator |-> "none", inputSchema |-> "none"])],
    "notifications/resources/list_changed")

\* compileUriTemplate(template).match(uri) for a template that ends in its
\* only placeholder {x}: the literal part, then one or more characters other
\* than "/" and "?".
match(template, uri) ==
    LET literal == SubSeq(template, 1, Len(template) - 3)
    IN  /\ Len(uri) > Len(literal)
        /\ SubSeq(uri, 1, Len(literal)) = literal
        /\ \A i \in (Len(literal) + 1)..Len(uri) : uri[i] \notin {"/", "?"}

\* buildScopedName of mountChild.
buildScopedName(prefix, suffix, originalName) ==
    LET prefixed == IF prefix # <<>> THEN prefix \o <<"/">> \o originalName
                    ELSE originalName
    IN  IF suffix # <<>> THEN prefixed \o <<"_">> \o suffix ELSE prefixed

mountEntries_Overwrites(own, mounted, prefix, suffix, rename, wrap) ==
    LET scoped(n) == IF rename THEN buildScopedName(prefix, suffix, n) ELSE n
        source(q) == CHOOSE n \in DOMAIN mounted : scoped(n) = q
    IN  [q \in DOMAIN own \cup {scoped(n) : n \in DOMAIN mounted} |->
            IF q \notin {scoped(n) : n \in DOMAIN mounted} THEN own[q]
            ELSE [mounted[source(q)] EXCEPT
                     !.name = IF rename THEN q ELSE @,
                     !.handler = IF wrap # <<>>
                                 THEN [@ EXCEPT !.wrapped = TRUE, !.mws = wrap \o @]
                                 ELSE @]]

\* The entries of one registry after a mount: an entry of the child is added
\* under its scoped name (resources: under its own URI or template) unless
\* the parent has an entry of that name.
mountEntries(own, mounted, prefix, suffix, rename, wrap) ==
    LET scoped(n) == IF rename THEN buildScopedName(prefix, suffix, n) ELSE n
        added == {n \in DOMAIN mounted : scoped(n) \notin DOMAIN own}
        source(q) == CHOOSE n \in added : scoped(n) = q
    IN  [q \in DOMAIN own \cup {scoped(n) : n \in added} |->
            IF q \in DOMAIN own THEN own[q]
            ELSE [mounted[source(q)] EXCEPT
                     !.name = IF rename THEN q ELSE @,
                     !.handler = IF wrap # <<>>
                                 THEN [@ EXCEPT !.wrapped = TRUE, !.mws = wrap \o @]
                                 ELSE @]]

mountChild_AnnouncesEveryKind(server, prefix, suffix, child) ==
    LET childMWs == child.middlewares
        mounted == [server EXCEPT
            !.tools = mountEntries(@, child.tools, prefix, suffix, TRUE, childMWs),
            !.prompts = mountEntries(@, child.prompts, prefix, suffix, TRUE, childMWs),
            !.resources = mountEntries(@, child.resources, prefix, suffix, FALSE, childMWs)]
    IN  listChanged(listChanged(listChanged(mounted,
            "notifications/tools/list_changed"),
            "notifications/prompts/list_changed"),
            "notifications/resources/list_changed")

\* mountChild: tools and prompts are mounted under their scoped names,
\* resources under their own URI or template; the child's middlewares, if it
\* has any, are wrapped around the handlers that are added; a changed list
\* is announced for each kind of which an entry was added.
mountChild(server, prefix, suffix, child) ==
    LET childMWs == child.middlewares
        mounted == [server EXCEPT
            !.tools = mountEntries(@, child.tools, prefix, suffix, TRUE, childMWs),
            !.prompts = mountEntries(@, child.prompts, prefix, suffix, TRUE, childMWs),
            !.resources = mountEntries(@, child.resources, prefix, suffix, FALSE, childMWs)]
        addedTools == Cardinality(DOMAIN mounted.tools \ DOMAIN server.tools)
        addedPrompts == Cardinality(DOMAIN mounted.prompts \ DOMAIN server.prompts)
        addedResources == Cardinality(DOMAIN mounted.resources \ DOMAIN server.resources)
        tools == IF addedTools > 0
                 THEN listChanged(mounted, "notifications/tools/list_changed")
                 ELSE mounted
        prompts == IF addedPrompts > 0
                   THEN listChanged(tools, "notifications/prompts/list_changed")
                   ELSE tools
    IN  IF addedResources > 0
        THEN listChanged(prompts, "notifications/resources/list_changed")
        ELSE prompts

\* use(): the middleware is added at the end of the server's chain.
use(server, middleware) == [server EXCEPT !.middlewares = Append(@, middleware)]

\* runMiddlewares around a wrapped handler, from middleware i on: whether
\* the chain threw, whether the handler was entered ("invoked") and whether
\* it returned ("handlerCalled").
RECURSIVE runWrapped(_, _, _)
runWrapped(mws, i, handled) ==
    IF i > Len(mws)
    THEN [threw |-> handled.threw, error |-> handled.error, invoked |-> TRUE,
          handlerCalled |-> ~handled.threw]
    ELSE CASE mws[i] = "next" -> runWrapped(mws, i + 1, handled)
           [] mws[i] \in {"skip", "respond"} ->
                 [threw |-> FALSE, error |-> PlainError(""), invoked |-> FALSE,
                  handlerCalled |-> FALSE]
           [] mws[i] = "throw" ->
                 [threw |-> TRUE, error |-> PlainError("middleware failed"),
                  invoked |-> FALSE, handlerCalled |-> FALSE]
           [] mws[i] = "throwAfterNext" ->
                 LET r == runWrapped(mws, i + 1, handled)
                 IN  IF r.threw THEN r
                     ELSE [r EXCEPT !.threw = TRUE,
                                    !.error = PlainError("middleware failed")]

wrapWithMiddlewares_EmptySuccess(mws, handled) ==
    LET run == runWrapped(mws, 1, handled)
    IN  IF run.threw THEN Throws(run.error)
        ELSE IF ~run.handlerCalled THEN Returns([kind |-> "none"])
        ELSE handled

\* The handler that wrapWithMiddlewares and wrapResourceHandler return,
\* called: what it does, given what the handler it wraps does ("handled").
wrapWithMiddlewares(mws, handled) ==
    LET run == runWrapped(mws, 1, handled)
    IN  IF run.threw THEN Throws(run.error)
        ELSE IF ~run.handlerCalled
        THEN Throws(RpcError(INTERNAL_ERROR, "Internal server error"))
        ELSE handled

\* The params of tools/call, prompts/get and resources/read: an object or
\* not, its name or uri member (Undefined when it is not a string) and its
\* arguments.
CallParams(isObject, name, arguments) ==
    [isObject |-> isObject, name |-> name, arguments |-> arguments]

\* What a registered handler returns when it is invoked: the handler
\* functions "valid", "invalid" and "failed" return structured content that
\* has the property a ({a: 5}), structured content that lacks it ({}), and
\* an error result with structured content; the others return none.
Invoked(entry, arguments) ==
    wrapWithMiddlewares(entry.handler.mws,
    Returns([kind |-> entry.type, handler |-> entry.handler, arguments |-> arguments,
             structuredContent |-> CASE entry.handler.fn = "valid" -> <<"a5">>
                                     [] entry.handler.fn \in {"invalid", "failed"} -> <<"empty">>
                                     [] OTHER -> <<>>,
             isError |-> entry.handler.fn = "failed"]))

handleToolsCall_ValidatesErrors(server, params) ==
    IF ~params.isObject
    THEN Throws(RpcError(INVALID_PARAMS,
                         "tools/call requires an object with name and arguments"))
    ELSE IF params.name = Undefined
    THEN Throws(RpcError(INVALID_PARAMS, "tools/call requires a string 'name' field"))
    ELSE IF params.name \notin DOMAIN server.tools
    THEN Throws(RpcError(METHOD_NOT_FOUND, "Method not found"))
    ELSE LET entry == server.tools[params.name]
             validated == createValidationFunction(entry.validator, params.arguments)
             invoked == Invoked(entry, params.arguments)
             result == invoked.result
             output == createValidationFunction(entry.outputValidator,
                                                result.structuredContent[1])
         IN  IF entry.validator # "none" /\ validated.threw THEN validated
             ELSE IF invoked.threw THEN invoked
             ELSE IF entry.outputValidator # "none" /\ result.structuredContent # <<>>
             THEN IF output.threw
                  THEN Throws(RpcError(INVALID_PARAMS,
                                       "Tool returned invalid structured content"))
                  ELSE Returns([result EXCEPT !.structuredContent = <<output.result.kind>>])
             ELSE Returns(result)

handleToolsCall(server, params) ==
    IF ~params.isObject
    THEN Throws(RpcError(INVALID_PARAMS,
                         "tools/call requires an object with name and arguments"))
    ELSE IF params.name = Undefined
    THEN Throws(RpcError(INVALID_PARAMS, "tools/call requires a string 'name' field"))
    ELSE IF params.name \notin DOMAIN server.tools
    THEN Throws(RpcError(METHOD_NOT_FOUND, "Method not found"))
    ELSE LET entry == server.tools[params.name]
             validated == createValidationFunction(entry.validator, params.arguments)
             invoked == Invoked(entry, params.arguments)
             result == invoked.result
             output == createValidationFunction(entry.outputValidator,
                                                result.structuredContent[1])
         IN  IF entry.validator # "none" /\ validated.threw THEN validated
             ELSE IF invoked.threw THEN invoked
             ELSE IF /\ entry.outputValidator # "none"
                     /\ result.structuredContent # <<>>
                     /\ ~result.isError
             THEN IF output.threw
                  THEN Throws(RpcError(INVALID_PARAMS,
                                       "Tool returned invalid structured content"))
                  ELSE Returns([result EXCEPT !.structuredContent = <<output.result.kind>>])
             ELSE Returns(result)

handlePromptsGet(server, params) ==
    IF ~params.isObject
    THEN Throws(RpcError(INVALID_PARAMS,
                         "prompts/get requires an object with name and arguments"))
    ELSE IF params.name = Undefined
    THEN Throws(RpcError(INVALID_PARAMS, "prompts/get requires a string 'name' field"))
    ELSE IF params.name \notin DOMAIN server.prompts
    THEN Throws(RpcError(INVALID_PARAMS, "Invalid prompt name"))
    ELSE LET entry == server.prompts[params.name]
             validated == createValidationFunction(entry.validator, params.arguments)
         IN  IF entry.validator # "none" /\ validated.threw THEN validated
             ELSE Invoked(entry, IF params.arguments = "absent" THEN "empty"
                                 ELSE params.arguments)

\* handleResourcesRead: a static resource of that URI first, then a template
\* that matches it.
handleResourcesRead(server, params) ==
    IF ~params.isObject
    THEN Throws(RpcError(INVALID_PARAMS, "resources/read requires an object with uri"))
    ELSE IF params.name = Undefined
    THEN Throws(RpcError(INVALID_PARAMS, "resources/read requires a string 'uri' field"))
    ELSE LET uri == params.name
             direct == uri \in DOMAIN server.resources
                           /\ server.resources[uri].type = "resource"
             templates == {t \in DOMAIN server.resources :
                              /\ server.resources[t].type = "resource_template"
                              /\ match(t, uri)}
         IN  IF direct THEN Invoked(server.resources[uri], "absent")
             ELSE IF templates # {}
             THEN Invoked(server.resources[CHOOSE t \in templates : TRUE], "absent")
             ELSE Throws(RpcError(METHOD_NOT_FOUND, "Method not found"))

\* What the handler of the message's method does on this server.
methodOutcome(server, message) ==
    CASE message.method = "tools/call" -> handleToolsCall(server, message.params)
      [] message.method = "prompts/get" -> handlePromptsGet(server, message.params)
      [] message.method = "resources/read" -> handleResourcesRead(server, message.params)
      [] OTHER -> CHOOSE o \in HandlerOutcomes(message.method, message.params) : TRUE

\* _dispatch of a message on a server with registries.
dispatchOn(server, message) == dispatch(server, message, methodOutcome(server, message))

(***************************************************************************)
(* A driver of the registries: a parent server registers tools, prompts    *)
(* and resources, mounts child servers and answers calls.  The last call   *)
(* is kept with the server as it was before the call.                      *)
(***************************************************************************)
MaxRegistryCalls == 3

ToolNames == {<<"f">>, <<"g", "/", "f">>}

Schemas == {"none", "plain", "standard"}

ResourceTemplates == {<<"r">>, <<"t", "/", "{", "x", "}">>}

Prefixes == {<<>>, <<"g">>}

Suffixes == {<<>>, <<"s">>}

\* A child server with a tool and a prompt f and a static resource r, with
\* or without a middleware of its own.
ChildServers ==
    {[resource(prompt(tool(NewServer(TRUE), <<"f">>, "standard", "none", "child"),
                      <<"f">>, "none", "child"), <<"r">>, "child")
         EXCEPT !.middlewares = mws] : mws \in {<<>>, <<"next">>, <<"skip">>, <<"respond">>}}

\* The names and URIs a client asks for, registered or not.
CallNames == ToolNames \cup {<<"h">>, <<"r">>, <<"t", "/", "1">>, <<"t", "/">>}

CallMessage(method, params) ==
    [id |-> [t |-> "number", v |-> <<"1">>], method |-> method, params |-> params]

CallMessages ==
    {CallMessage("tools/call", CallParams(TRUE, name, arguments)) :
        name \in ToolNames \cup {<<"h">>}, arguments \in {"a5", "empty"}}
    \cup {CallMessage("prompts/get", CallParams(TRUE, name, "absent")) :
             name \in {<<"f">>, <<"h">>}}
    \cup {CallMessage("resources/read", CallParams(TRUE, uri, "absent")) :
             uri \in {<<"r">>, <<"t", "/", "1">>, <<"t", "/">>}}
    \cup {CallMessage(method, CallParams(FALSE, Undefined, "absent")) :
             method \in {"tools/call", "toString", "no/such/method"}}
    \cup {CallMessage("initialize",
                       [name |-> Undefined, arguments |-> "absent", isObject |-> TRUE,
                        versionIsString |-> TRUE, restWellFormed |-> wellFormed,
                        protocolVersion |-> V2025_06_18, capabilities |-> {}]) :
             wellFormed \in BOOLEAN}

InitRegistry ==
    /\ \E schemaAdapter \in BOOLEAN : mcpServer = NewServer(schemaAdapter)
    /\ dispatched = [op |-> "none", calls |-> 0]
    /\ transport = NewTransport(FALSE, FALSE)
    /\ exchanges = <<>>
    /\ lastHttp = NoHttp
    /\ PendingIdle
    /\ StoreIdle

\* The parent makes a registry call that takes it to the server after.
Registers(op, args, after) ==
    /\ dispatched.calls < MaxRegistryCalls
    /\ mcpServer' = [after EXCEPT !.sent = <<>>]
    /\ dispatched' = [op |-> op, calls |-> dispatched.calls + 1, args |-> args,
                      before |-> mcpServer, sent |-> after.sent]
    /\ UNCHANGED <<pendingVars, storeVars, transport, exchanges, lastHttp>>

RegisterTool ==
    \E name \in ToolNames, schema \in Schemas :
        Registers("tool", [name |-> name, schema |-> schema, outputSchema |-> "none",
                           fn |-> "parent"],
                  tool(mcpServer, name, schema, "none", "parent"))

ToolHandlers == {"parent", "valid", "invalid", "failed"}

\* The parent registers the tool f with an output schema and a handler that
\* returns structured content or none.
RegisterStructuredTool ==
    \E outputSchema \in Schemas, fn \in ToolHandlers :
        Registers("tool", [name |-> <<"f">>, schema |-> "none",
                           outputSchema |-> outputSchema, fn |-> fn],
                  tool(mcpServer, <<"f">>, "none", outputSchema, fn))

RegisterPrompt ==
    \E schema \in {"none", "standard"} :
        Registers("prompt", [name |-> <<"f">>, schema |-> schema],
                  prompt(mcpServer, <<"f">>, schema, "parent"))

RegisterResource ==
    \E template \in ResourceTemplates :
        Registers("resource", [name |-> template],
                  resource(mcpServer, template, "parent"))

\* The parent adds a middleware that calls next or one that returns
\* without calling it, with or without a response of its own.
Use ==
    \E middleware \in {"next", "skip", "respond"} :
        Registers("use", [middleware |-> middleware], use(mcpServer, middleware))

Group ==
    \E prefix \in Prefixes, suffix \in Suffixes, child \in ChildServers :
        Registers("group", [prefix |-> prefix, suffix |-> suffix, child |-> child],
                  mountChild(mcpServer, prefix, suffix, child))

RegistryCall ==
    \E message \in CallMessages :
        /\ dispatched.op # "call"
        /\ dispatched' = [op |-> "call", calls |-> dispatched.calls,
                          message |-> message,
                          responses |-> dispatchOn(mcpServer, message)]
        /\ mcpServer' = IF /\ message.method = "initialize"
                           /\ HandlerCalled(mcpServer, message)
                           /\ isInitializeParams(message.params)
                        THEN [mcpServer EXCEPT !.initialized = TRUE]
                        ELSE mcpServer
        /\ UNCHANGED <<pendingVars, storeVars, transport, exchanges, lastHttp>>

NextRegistry ==
    \/ RegisterTool
    \/ RegisterStructuredTool
    \/ RegisterPrompt
    \/ RegisterResource
    \/ Group
    \/ Use
    \/ RegistryCall

SpecRegistry == InitRegistry /\ [][NextRegistry]_vars

(***************************************************************************)
(* Properties of the pending-request adapter                               *)
(***************************************************************************)
Handles == 1..Len(adapter.promises)

Settled(h) == adapter.promises[h].state # "pending"

Registered(h) ==
    /\ adapter.promises[h].key \in DOMAIN adapter.pending
    /\ adapter.pending[adapter.promises[h].key] = h

PositiveTimeout(h) ==
    /\ adapter.promises[h].timeoutMs # NoNumber
    /\ adapter.promises[h].timeoutMs[1] > 0

\* C3: a resolvePending or rejectPending call on a key that has no entry
\* returns false and leaves the adapter as it was, and no promise's resolve or
\* reject function is ever called more than once, over any sequence of
\* createPending, resolvePending, rejectPending calls and timer expiries.
C3_SettlementIdempotent ==
    /\ [][ (/\ lastCall'.op \in {"resolve", "reject"}
            /\ lastCall'.key \notin DOMAIN adapter.pending)
           => (lastCall'.ret = FALSE /\ adapter' = adapter) ]_vars
    /\ [](\A h \in Handles : adapter.promises[h].settleCalls <= 1)

\* A second settlement call arrived for a key whose promise was already settled.
C3_Witness ==
    /\ lastCall.op \in {"resolve", "reject"}
    /\ lastCall.ret = FALSE
    /\ \E h \in Handles : adapter.promises[h].key = lastCall.key /\ Settled(h)

\* C4: in every reachable state each key maps to at most one promise, the
\* registered promises are exactly the unsettled ones, and a promise replaced
\* by a createPending on its key has been rejected.
C4_OneLiveHandlePerKey ==
    /\ \A h \in Handles : ~Settled(h) <=> Registered(h)
    /\ \A h1, h2 \in Handles :
          (/\ ~Settled(h1) /\ ~Settled(h2)
           /\ adapter.promises[h1].key = adapter.promises[h2].key) => h1 = h2
    /\ \A k \in DOMAIN adapter.pending : adapter.promises[adapter.pending[k]].key = k

\* A createPending on a live key replaced the prior promise.
C4_Witness ==
    \E h1, h2 \in Handles :
        /\ h1 # h2
        /\ adapter.promises[h1].key = adapter.promises[h2].key
        /\ adapter.promises[h1].reason = "replaced"
        /\ adapter.promises[h1].state = "rejected"
        /\ ~Settled(h2) /\ Registered(h2)

\* C5: a promise created with a positive timeout (timeout_ms, else the
\* default) has its timer armed while it is unsettled and is eventually
\* settled; a timer that fired rejected its own promise with the timeout error
\* and removed its entry; once a promise is settled its timer never fires.
C5_TimeoutRejects ==
    /\ \A h \in 1..(MaxHandles + 1) :
          (h \in Handles /\ PositiveTimeout(h)) ~> (h \in Handles /\ Settled(h) /\ ~Registered(h))
    /\ [](\A h \in Handles :
            /\ (PositiveTimeout(h) /\ ~Settled(h)) => adapter.promises[h].timer = "armed"
            /\ adapter.promises[h].timer = "fired" =>
                  /\ adapter.promises[h].state = "rejected"
                  /\ adapter.promises[h].reason = "timeout"
                  /\ adapter.promises[h].settleCalls = 1
                  /\ ~Registered(h))
    /\ [][\A h \in Handles :
            Settled(h) => adapter'.promises[h].timer = adapter.promises[h].timer]_vars

\* One promise was rejected by its timer, another was settled first and its
\* timer cleared.
C5_Witness ==
    \E h1, h2 \in Handles :
        /\ adapter.promises[h1].timer = "fired"
        /\ adapter.promises[h1].reason = "timeout"
        /\ adapter.promises[h2].timer = "cleared"
        /\ adapter.promises[h2].reason \in {"response", "explicit"}

(***************************************************************************)
(* Properties of the session store                                         *)
(***************************************************************************)
BufferOf(id, s) ==
    IF s \in DOMAIN store.sessions[id].streams
    THEN store.sessions[id].streams[s].eventBuffer
    ELSE <<>>

\* The events of stream s that are still buffered and follow sequence number n,
\* in the order they were appended.
BufferedAfter(id, s, n) ==
    SubSeq(appended[id][s],
           (IF n > Len(appended[id][s]) - Len(BufferOf(id, s)) THEN n
            ELSE Len(appended[id][s]) - Len(BufferOf(id, s))) + 1,
           Len(appended[id][s]))

\* C6: replay(sessionId, "n#s", write) calls write exactly once for each event
\* still buffered in stream s whose sequence number is greater than n, in
\* increasing sequence order, and for no event of any other stream.
C6_ReplayExact ==
    \A n \in 1..MaxSequence, s \in StreamIds :
        (/\ storeCall.op = "replay"
         /\ storeCall.id \in DOMAIN store.sessions
         /\ storeCall.lastEventId = formatEventId(n, s))
        => (~storeCall.threw /\ storeCall.writes = BufferedAfter(storeCall.id, s, n))

\* C7: for every configured maxEventBufferSize, each stream's buffer holds at
\* most maxEventBufferSize events, and they are the most recently appended ones.
C7_BufferBounded ==
    \A id \in DOMAIN store.sessions : \A s \in StreamIds :
        /\ Len(BufferOf(id, s)) <= store.maxEventBufferSize
        /\ BufferOf(id, s) =
              SubSeq(appended[id][s],
                     Len(appended[id][s]) - Len(BufferOf(id, s)) + 1,
                     Len(appended[id][s]))

(***************************************************************************)
(* Properties of _dispatch                                                 *)
(***************************************************************************)
\* C1: for every request with id X, _dispatch returns exactly one response
\* and its id is X, whatever the method, the middlewares, the handler outcome
\* and the onError hook do; for every notification it returns null.
C1_OneResponsePerRequest ==
    dispatched.calls > 0 =>
        IF dispatched.message.id = AbsentId
        THEN dispatched.responses = <<>>
        ELSE /\ Len(dispatched.responses) = 1
             /\ dispatched.responses[1].id = dispatched.message.id

\* A request with the falsy id 0 whose handler threw while the onError hook
\* threw as well was answered with an error carrying the id 0.
C1_Witness ==
    /\ dispatched.calls > 0
    /\ dispatched.message.id = [t |-> "number", v |-> <<"0">>]
    /\ dispatched.outcome.threw
    /\ dispatched.server.onError = "throws"
    /\ Len(dispatched.responses) = 1
    /\ dispatched.responses[1].isError
    /\ dispatched.responses[1].id = dispatched.message.id

(***************************************************************************)
(* Properties of the transport                                             *)
(***************************************************************************)
\* The last answered request was an initialize request (with an id).
InitializeAnswered ==
    /\ lastHttp.op = "POST"
    /\ lastHttp.message.method = "initialize"
    /\ lastHttp.message.id # AbsentId
    /\ Len(lastHttp.response.body) = 1

\* C2: every tools/call request that the transport dispatched, by a plain
\* POST or a POST with SSE, eventually completes: its handler finishes and the
\* response is produced, whether the client answers the server's elicitation
\* request, never answers it, or deletes the session while the call waits.
C2_EveryRequestCompletes ==
    \A e \in 1..MaxExchanges :
        (Len(exchanges) >= e /\ exchanges[e].request.message.id # AbsentId)
            ~> (Len(exchanges) >= e /\ exchanges[e].pc = "done")

\* C8: an initialize request that is answered with a JSON-RPC error creates
\* no session and its response carries no MCP-Session-Id header.
C8_SessionOnlyOnSuccess ==
    (InitializeAnswered /\ lastHttp.response.body[1].isError)
        => /\ lastHttp.response.sessionId = Undefined
           /\ randomUUID(transport.uuids) \notin DOMAIN store.sessions

C10_UnsupportedVersionRejected ==
    (/\ InitializeAnswered
     /\ isInitializeParams(lastHttp.message.params)
     /\ lastHttp.message.params.protocolVersion \notin {"2025-03-26", "2025-06-18"})
        => /\ lastHttp.response.body[1].isError
           /\ lastHttp.response.body[1].code = -32000


(***************************************************************************)
(* Properties of the MCP-Protocol-Version header                           *)
(***************************************************************************)
\* The stored sessions negotiated at `version'.
SessionsOf(version) ==
    {id \in DOMAIN store.sessions : store.sessions[id].meta.protocolVersion = version}

\* The requests, notifications and client responses a client may POST.
NonInitializeMessages == {m \in OtherMessages : m.kind \in {"call", "response"}}

PostOf(sessionId, message, acceptsSse, protocolHeader) ==
    handlePost(World, [sessionId |-> sessionId, message |-> message,
                       acceptsSse |-> acceptsSse, protocolHeader |-> protocolHeader,
                       behaviour |-> "finish"])

GetOf(sessionId, protocolHeader) ==
    handleGet(World, [sessionId |-> sessionId, acceptsSse |-> TRUE,
                      protocolHeader |-> protocolHeader, lastEventId |-> Undefined])

\* C11: in every reachable state, a POST of a request, a notification or a
\* client response and a GET that carry the id of a session negotiated at
\* 2025-06-18 and no MCP-Protocol-Version header, or one of another version,
\* are answered 400 and change nothing.
C11_NewerSessionRequiresHeader ==
    \A sessionId \in SessionsOf(V2025_06_18) :
        \A protocolHeader \in ProtocolHeaders \ {V2025_06_18} :
            /\ \A message \in NonInitializeMessages, acceptsSse \in BOOLEAN :
                  /\ PostOf(sessionId, message, acceptsSse, protocolHeader).http.status = 400
                  /\ PostOf(sessionId, message, acceptsSse, protocolHeader).w = World
            /\ GetOf(sessionId, protocolHeader).http.status = 400
            /\ GetOf(sessionId, protocolHeader).w = World

\* C12: in every reachable state, a POST of a request, a notification or a
\* client response and a GET that carry the id of a session negotiated at
\* 2025-03-26 are accepted when the MCP-Protocol-Version header is absent or
\* 2025-03-26, and answered 400 when it has another value.
C12_OlderSessionHeaderOptional ==
    \A sessionId \in SessionsOf(V2025_03_26) :
        \A protocolHeader \in ProtocolHeaders :
            IF protocolHeader \in {NoVersion, V2025_03_26}
            THEN /\ \A message \in NonInitializeMessages :
                       PostOf(sessionId, message, FALSE, protocolHeader).http.status
                           \in {200, 202}
                 /\ GetOf(sessionId, protocolHeader).http.status \in {200, 409}
            ELSE /\ \A message \in NonInitializeMessages :
                       PostOf(sessionId, message, FALSE, protocolHeader).http.status = 400
                 /\ GetOf(sessionId, protocolHeader).http.status = 400


(***************************************************************************)
(* Properties of the streams of a session                                  *)
(***************************************************************************)
\* The writers of session-level streams of the session that are not ended.
OpenSessionWriters(sessionId) ==
    {wr \in 1..Len(transport.writers) :
        /\ transport.writers[wr].scope = "session"
        /\ transport.writers[wr].key = sessionId
        /\ ~transport.writers[wr].closed}

\* C13: in every reachable state, whatever the interleaving of the GET
\* handlers, a session has at most one session-level stream that is not
\* ended, it is the registered one, and a GET that reaches the conflict check
\* while the session has a registered stream is answered 409 and changes nothing.
C13_OneSessionStream ==
    /\ \A sessionId \in TransportSessionIds :
          /\ Cardinality(OpenSessionWriters(sessionId)) <= 1
          /\ sessionId \in DOMAIN transport.sessionStreams
                => OpenSessionWriters(sessionId) = {transport.sessionStreams[sessionId]}
    /\ \A sessionId \in DOMAIN transport.sessionStreams :
          \A lastEventId \in {Undefined, <<"x">>} :
              \E r \in {handleGetOpens(World, [sessionId |-> sessionId, acceptsSse |-> TRUE,
                                               protocolHeader |-> NoVersion,
                                               lastEventId |-> lastEventId])} :
                  r.http.status = 409 /\ r.w = World

\* A GET was answered 409 while another GET, which passed the session check
\* before, is still to reach the conflict check; a stream was ended before.
C13_Witness ==
    /\ lastHttp.op = "GET"
    /\ lastHttp.response.status = 409
    /\ \E sessionId \in DOMAIN transport.sessionStreams :
          /\ OpenSessionWriters(sessionId) # {}
          /\ \E e \in 1..Len(exchanges) :
                exchanges[e].pc = "opening" /\ exchanges[e].request.sessionId = sessionId
    /\ \E wr \in 1..Len(transport.writers) : transport.writers[wr].closed

\* The writers of the streams that were created under the session.
WritersUnder(sessionId) ==
    {wr \in 1..Len(transport.writers) :
        \/ transport.writers[wr].scope = "session" /\ transport.writers[wr].key = sessionId
        \/ transport.writers[wr].scope = "request"
             /\ startsWith(transport.writers[wr].key, sessionId \o <<":">>)}

\* C14: in every reachable state, once a DELETE of a session was answered 200
\* and until the next exchange is answered, the session has no registered
\* session stream and no registered request stream, every stream created
\* under it is ended and its record is gone, whatever the interleaving of
\* the DELETE with the other exchanges of the session.
C14_DeleteTearsDown ==
    (lastHttp.op = "DELETE" /\ lastHttp.response.status = 200)
        => /\ lastHttp.sessionId \notin DOMAIN transport.sessionStreams
           /\ \A k \in DOMAIN transport.requestStreams :
                 ~startsWith(k, lastHttp.sessionId \o <<":">>)
           /\ \A wr \in WritersUnder(lastHttp.sessionId) : transport.writers[wr].closed
           /\ lastHttp.sessionId \notin DOMAIN store.sessions


C16_BatchRejected ==
    \A sessionId \in TransportSessionIds \ SessionsOf(V2025_03_26) :
        \A message \in BatchMessages :
            \E r \in {PostOf(sessionId, message, FALSE, NoVersion)} :
                /\ r.http.status = 400
                /\ Len(r.http.body) = 1
                /\ r.http.body[1].id = NullId
                /\ r.http.body[1].isError /\ r.http.body[1].code = INVALID_REQUEST
                /\ r.w = World

\* A batch of two elements was rejected while a session of 2025-06-18 exists.
C16_Witness ==
    /\ lastHttp.op = "POST"
    /\ lastHttp.message.kind = "batch"
    /\ Len(lastHttp.message.batch) = 2
    /\ lastHttp.response.status = 400
    /\ SessionsOf(V2025_06_18) # {}

\* What the answer to a batch holds for one element: nothing for a
\* notification, an InvalidRequest error without id for what is neither a
\* request nor a notification, and for a request its response.
Answer(m) ==
    IF m.kind # "call"
    THEN <<[id |-> NullId, isError |-> TRUE, code |-> INVALID_REQUEST]>>
    ELSE IF m.id = AbsentId THEN <<>>
    ELSE IF m.method = "ping" THEN <<[id |-> m.id, isError |-> FALSE, code |-> 0]>>
    ELSE <<[id |-> m.id, isError |-> TRUE, code |-> INTERNAL_ERROR]>>

RECURSIVE Answers(_)
Answers(batch) ==
    IF batch = <<>> THEN <<>> ELSE Answer(Head(batch)) \o Answers(Tail(batch))

\* C17: in every reachable state, a batch POSTed with the id of a session
\* negotiated at 2025-03-26 is answered 200 with the array that holds, in the
\* order of the elements, the response of each request (also after a failed
\* one), an InvalidRequest error for each element that is neither a request
\* nor a notification, and nothing for a notification.
C17_BatchAnsweredInOrder ==
    \A sessionId \in SessionsOf(V2025_03_26) :
        \A message \in BatchMessages :
            \E r \in {PostOf(sessionId, message, FALSE, NoVersion)} :
                /\ r.http.status = 200
                /\ [i \in 1..Len(r.http.body) |->
                       [id |-> r.http.body[i].id, isError |-> r.http.body[i].isError,
                        code |-> r.http.body[i].code]] = Answers(message.batch)

\* A batch whose first element failed and whose second element is a request
\* was answered with two entries.
C17_Witness ==
    /\ lastHttp.op = "POST"
    /\ lastHttp.message.kind = "batch"
    /\ lastHttp.response.status = 200
    /\ Len(lastHttp.message.batch) = 2
    /\ lastHttp.message.batch[1].method = "resources/subscribe"
    /\ lastHttp.message.batch[2].method = "ping"
    /\ Len(lastHttp.response.body) = 2
    /\ lastHttp.response.body[2].id = lastHttp.message.batch[2].id

(***************************************************************************)
(* Properties of the registries                                            *)
(***************************************************************************)
Registries == {"tools", "prompts", "resources"}

\* The tools/call requests that name a tool of the server.
CallsOfTools(server) ==
    {m \in CallMessages : /\ m.method = "tools/call"
                          /\ m.params.isObject
                          /\ m.params.name \in DOMAIN server.tools}

\* C18: composition is keep-first.  When a child is mounted, every entry the
\* parent had keeps its name, its metadata, its validator and its handler,
\* a call of a tool the parent had is answered as before the mount, and the
\* names added are scoped names of the child's entries that the parent did
\* not have.
C18_MountKeepsFirst ==
    dispatched.op = "group" =>
        LET before == dispatched.before
            child == dispatched.args.child
            scoped(r, n) == IF r = "resources" THEN n
                            ELSE buildScopedName(dispatched.args.prefix,
                                                 dispatched.args.suffix, n)
        IN  /\ \A r \in Registries :
                  /\ \A n \in DOMAIN before[r] :
                        n \in DOMAIN mcpServer[r] /\ mcpServer[r][n] = before[r][n]
                  /\ \A q \in DOMAIN mcpServer[r] \ DOMAIN before[r] :
                        \E n \in DOMAIN child[r] :
                            /\ q = scoped(r, n)
                            /\ mcpServer[r][q].handler.fn = child[r][n].handler.fn
                            /\ mcpServer[r][q].validator = child[r][n].validator
            /\ \A m \in CallsOfTools(before) :
                  dispatchOn(mcpServer, m) = dispatchOn(before, m)

\* The parent registered the tool g/f and then mounted, under the prefix g,
\* a child that has a tool f and a prompt f: the tool g/f is still the
\* parent's, the child's prompt was added as g/f.
C18_Witness ==
    /\ dispatched.op = "group"
    /\ dispatched.args.prefix = <<"g">>
    /\ dispatched.args.suffix = <<>>
    /\ <<"f">> \in DOMAIN dispatched.args.child.tools
    /\ <<"g", "/", "f">> \in DOMAIN dispatched.before.tools
    /\ mcpServer.tools[<<"g", "/", "f">>].handler.fn = "parent"
    /\ <<"g", "/", "f">> \notin DOMAIN dispatched.before.prompts
    /\ <<"g", "/", "f">> \in DOMAIN mcpServer.prompts
    /\ mcpServer.prompts[<<"g", "/", "f">>].handler.fn = "child"

IsResult(responses) == Len(responses) = 1 /\ ~responses[1].isError

IsError(responses, code) ==
    Len(responses) = 1 /\ responses[1].isError /\ responses[1].code = code

\* C19: a tool registered with a plain JSON Schema descriptor that requires
\* the property a accepts the arguments {a: 5} and answers the arguments {}
\* with InvalidParams, without invoking its handler.
C19_PlainSchemaValidates ==
    \A n \in DOMAIN mcpServer.tools :
        mcpServer.tools[n].inputSchema = "plain" =>
            /\ IsResult(dispatchOn(mcpServer,
                            CallMessage("tools/call", CallParams(TRUE, n, "a5"))))
            /\ IsError(dispatchOn(mcpServer,
                            CallMessage("tools/call", CallParams(TRUE, n, "empty"))),
                       INVALID_PARAMS)

\* The requests whose lookup fails on the server: a method that is not
\* registered, a tool or a prompt that is not registered, a URI that matches
\* no static resource and no template.
FailedLookups(server) ==
    {m \in CallMessages :
        \/ m.method \notin RegisteredMethods
        \/ /\ m.params.isObject
           /\ \/ m.method = "tools/call" /\ m.params.name \notin DOMAIN server.tools
              \/ m.method = "prompts/get" /\ m.params.name \notin DOMAIN server.prompts
              \/ /\ m.method = "resources/read"
                 /\ \A t \in DOMAIN server.resources :
                       IF server.resources[t].type = "resource"
                       THEN t # m.params.name
                       ELSE ~match(t, m.params.name)}

\* C20: every lookup failure is answered with MethodNotFound (-32601).
C20_LookupFailuresAreMethodNotFound ==
    \A m \in FailedLookups(mcpServer) :
        IsError(dispatchOn(mcpServer, m), METHOD_NOT_FOUND)

(***************************************************************************)
(* Properties of notifications                                             *)
(***************************************************************************)
\* The POST of the dispatched message without a session id, and the world of
\* a transport without adapters bound to the dispatched server.
PostOfDispatched(acceptsSse) ==
    [sessionId |-> Undefined,
     message |-> Message("call", dispatched.message.id, dispatched.message.method,
                         dispatched.message.params, <<>>),
     acceptsSse |-> acceptsSse, protocolHeader |-> NoVersion, behaviour |-> "finish"]

WorldOfDispatched == [World EXCEPT !.server = dispatched.server]

\* C21: a failure while a notification is processed (unknown method, invalid
\* params, a handler or a middleware that throws) is swallowed: _dispatch
\* returns null, the onError hook is not called, and the transport answers
\* the POST of the notification with an empty 202.
C21_NotificationFailureSwallowed ==
    (dispatched.calls > 0 /\ dispatched.message.id = AbsentId) =>
        /\ dispatched.responses = <<>>
        /\ ~onErrorCalled(dispatched.server, dispatched.message, dispatched.outcome)
        /\ \A acceptsSse \in BOOLEAN :
              LET req == PostOfDispatched(acceptsSse)
                  x == NewExchange(WorldOfDispatched, req, FALSE, Undefined, 0, <<>>)
              IN  IF Suspends(WorldOfDispatched, req.message)
                  THEN /\ handlePost(WorldOfDispatched, req).http = NoHttpResponse
                       /\ complete(WorldOfDispatched, x, dispatched.outcome).http
                              = Http(202, <<>>, Undefined, 0)
                  ELSE handlePost(WorldOfDispatched, req).http = Http(202, <<>>, Undefined, 0)

\* A tools/call notification whose handler threw, on a server with a
\* middleware and an onError hook, was dispatched and nothing was returned.
C21_Witness ==
    /\ dispatched.calls > 0
    /\ dispatched.message.id = AbsentId
    /\ dispatched.message.method = "tools/call"
    /\ dispatched.outcome.threw
    /\ dispatched.server.middlewares = <<"next">>
    /\ dispatched.server.onError = "custom"
    /\ dispatched.responses = <<>>

(***************************************************************************)
(* Properties of event ids                                                 *)
(***************************************************************************)
IsSuffix(seq, of) ==
    \E k \in 0..Len(of) : seq = SubSeq(of, k + 1, Len(of))

\* C22: within one stream of one session appendEvent assigns the sequence
\* numbers 1, 2, 3, ... in this order, also after events were evicted; the
\* events a stream's buffer retains have consecutive sequence numbers that
\* end at the last one assigned; and what replay writes is a suffix of the
\* buffer of one stream.
C22_SequenceNumbersConsecutive ==
    /\ \A id \in DOMAIN store.sessions : \A s \in StreamIds :
          LET buffer == BufferOf(id, s)
              assigned == appended[id][s]
          IN  /\ \A k \in 1..Len(assigned) : assigned[k].id = formatEventId(k, s)
              /\ s \in DOMAIN store.sessions[id].streams =>
                    store.sessions[id].streams[s].nextEventId = Len(assigned) + 1
              /\ Len(buffer) <= Len(assigned)
              /\ \A i \in 1..Len(buffer) :
                    buffer[i] = assigned[Len(assigned) - Len(buffer) + i]
    /\ (storeCall.op = "replay" /\ storeCall.id \in DOMAIN store.sessions) =>
          \/ storeCall.writes = <<>>
          \/ \E s \in StreamIds : IsSuffix(storeCall.writes, BufferOf(storeCall.id, s))

\* Three events were appended to a stream that retains two, and a replay
\* after the second one wrote the third.
C22_Witness ==
    /\ storeCall.op = "replay"
    /\ ~storeCall.threw
    /\ storeCall.id \in DOMAIN store.sessions
    /\ store.maxEventBufferSize = 2
    /\ Len(appended[storeCall.id][<<"s">>]) = 3
    /\ Len(BufferOf(storeCall.id, <<"s">>)) = 2
    /\ storeCall.lastEventId = formatEventId(2, <<"s">>)
    /\ Len(storeCall.writes) = 1
    /\ storeCall.writes[1].id = formatEventId(3, <<"s">>)


(***************************************************************************)
(* Properties of notification routing and of request streams               *)
(***************************************************************************)
RequestWritersOf(sessionId) ==
    {wr \in 1..Len(transport.writers) :
        /\ transport.writers[wr].scope = "request"
        /\ startsWith(transport.writers[wr].key, sessionId \o <<":">>)}

DeliveredOnRequestStream(sessionId, message) ==
    \E wr \in RequestWritersOf(sessionId) :
        \E i \in 1..Len(transport.writers[wr].out) :
            transport.writers[wr].out[i] = [message EXCEPT !.eventId = Undefined]

SessionLog(sessionId) ==
    IF sessionId \in DOMAIN store.sessions
       /\ SSE_STREAM_ID \in DOMAIN store.sessions[sessionId].streams
    THEN store.sessions[sessionId].streams[SSE_STREAM_ID].eventBuffer
    ELSE <<>>

\* C23: a message that was delivered on a request stream of a session is not
\* in the session's event log, and no replay of the log to a later GET
\* delivers it again.
C23_RequestStreamMessagesNotPersisted ==
    \A sessionId \in DOMAIN store.sessions :
        /\ \A k \in 1..Len(SessionLog(sessionId)) :
              ~DeliveredOnRequestStream(sessionId, SessionLog(sessionId)[k].message)
        /\ \A n \in 1..MaxRouted :
              \A replayed \in {replay(store, sessionId, formatEventId(n, SSE_STREAM_ID))} :
                  \A k \in 1..Len(replayed.writes) :
                      ~DeliveredOnRequestStream(sessionId, replayed.writes[k].message)


SseExchanges == {e \in 1..Len(exchanges) : exchanges[e].sse}

OutOf(e) == transport.writers[exchanges[e].writer].out

FinalResponseOf(e, message) ==
    message.type = "response" /\ message.id = exchanges[e].request.message.id

Unregistered(wr) ==
    \A k \in DOMAIN transport.requestStreams : transport.requestStreams[k] # wr

\* The claim as it is written: every POST-SSE exchange whose dispatch has
\* settled left a closed, unregistered stream whose output is notifications
\* and then exactly one final response.
C24_AlwaysOneFinalResponse ==
    \A e \in SseExchanges :
        exchanges[e].pc = "done" =>
            /\ transport.writers[exchanges[e].writer].closed
            /\ Unregistered(exchanges[e].writer)
            /\ OutOf(e) # <<>>
            /\ FinalResponseOf(e, OutOf(e)[Len(OutOf(e))])
            /\ \A i \in 1..(Len(OutOf(e)) - 1) : OutOf(e)[i].type # "response"

\* C24: on the stream of a POST-SSE exchange for R a response is the last
\* message and has id R; when the dispatch settles while the stream is still
\* open, the final response is appended, and the stream is closed and
\* removed from the registry; a stream that the client or a DELETE closed
\* before carries no response; nothing is written to a closed stream.
C24_FinalResponseLast ==
    /\ [](\A e \in SseExchanges :
            /\ \A i \in 1..Len(OutOf(e)) :
                  OutOf(e)[i].type = "response" =>
                      i = Len(OutOf(e)) /\ FinalResponseOf(e, OutOf(e)[i])
            /\ exchanges[e].pc = "done" =>
                  /\ transport.writers[exchanges[e].writer].closed
                  /\ Unregistered(exchanges[e].writer))
    /\ [][\A e \in SseExchanges :
            LET wr == exchanges[e].writer
            IN  /\ (exchanges[e].pc # "done" /\ exchanges'[e].pc = "done") =>
                      IF transport.writers[wr].closed
                      THEN transport'.writers[wr].out = transport.writers[wr].out
                      ELSE /\ Len(transport'.writers[wr].out) = Len(OutOf(e)) + 1
                           /\ FinalResponseOf(e, transport'.writers[wr].out[Len(OutOf(e)) + 1])
                /\ transport.writers[wr].closed =>
                      transport'.writers[wr] = transport.writers[wr]]_vars

C24_Witness ==
    \E e \in SseExchanges :
        /\ exchanges[e].pc = "done"
        /\ exchanges[e].delivered = 1
        /\ Len(OutOf(e)) = 2
        /\ OutOf(e)[1].type = "notifications/progress"
        /\ FinalResponseOf(e, OutOf(e)[2])
        /\ transport.writers[exchanges[e].writer].closed


\* Whether the step from the writers `before' to the writers `after' wrote
\* one notification of `method' to each writer of `targets' and nothing else.
WroteOnlyTo(before, after, targets, method) ==
    \A wr \in 1..Len(before) :
        IF wr \in targets
        THEN /\ Len(after[wr].out) = Len(before[wr].out) + 1
             /\ SubSeq(after[wr].out, 1, Len(before[wr].out)) = before[wr].out
             /\ after[wr].out[Len(after[wr].out)].type = method
        ELSE after[wr] = before[wr]

\* C25: a progress notification of an in-flight request R of session S is
\* written to the request stream registered for (S,R) and to nothing else if
\* there is one, otherwise to the session stream of S and to nothing else if
\* there is one, and otherwise to no stream.
C25_TiedNotificationRouting ==
    \A e \in 1..Len(exchanges) :
        (exchanges[e].pc = "running" /\ exchanges[e].sessionId # Undefined) =>
            LET x == exchanges[e]
                key == requestStreamKey(x.sessionId, x.request.message.id)
                after == progress(World, x).transport.writers
                targets ==
                    IF key \in DOMAIN transport.requestStreams
                    THEN {transport.requestStreams[key]}
                    ELSE IF x.sessionId \in DOMAIN transport.sessionStreams
                    THEN {transport.sessionStreams[x.sessionId]}
                    ELSE {}
            IN  WroteOnlyTo(transport.writers, after, targets, "notifications/progress")


OpenWriters(scope) ==
    {wr \in 1..Len(transport.writers) :
        transport.writers[wr].scope = scope /\ ~transport.writers[wr].closed}

ListChangedWriters ==
    notificationSender(World, Undefined, "notifications/tools/list_changed",
                       AbsentId).transport.writers

\* The claim as it is written: a list-changed notification of the
\* initialized server is written once to every open session stream and to
\* every open request stream, with or without a session adapter.
C26_BroadcastToAllStreams ==
    mcpServer.initialized =>
        WroteOnlyTo(transport.writers, ListChangedWriters,
                    OpenWriters("session") \cup OpenWriters("request"),
                    "notifications/tools/list_changed")

\* C26: with a session adapter a list-changed notification is written once
\* to every open session stream and to no request stream; without one it is
\* written once to every open request stream.
C26_BroadcastByMode ==
    mcpServer.initialized =>
        WroteOnlyTo(transport.writers, ListChangedWriters,
                    IF transport.sessionAdapter THEN OpenWriters("session")
                    ELSE OpenWriters("request"),
                    "notifications/tools/list_changed")

C26_Witness ==
    \E wr \in 1..Len(transport.writers), other \in 1..Len(transport.writers) :
        /\ wr # other
        /\ ~transport.writers[wr].closed
        /\ ~transport.writers[other].closed
        /\ transport.writers[wr].scope = transport.writers[other].scope
        /\ \A x \in {wr, other} :
              /\ transport.writers[x].out # <<>>
              /\ IsListChanged(transport.writers[x].out[Len(transport.writers[x].out)])


(***************************************************************************)
(* Properties of requests that name no stored session                      *)
(***************************************************************************)
\* Session ids that name no stored session: never issued, or deleted.
UnknownSessionIds ==
    ({randomUUID(n) : n \in 1..MaxUuids} \cup {<<"z">>}) \ DOMAIN store.sessions

CallMessagesOf(messages) == {m \in messages : m.kind = "call"}

\* C27: in every reachable state, a request or notification other than
\* initialize that is POSTed with the id of no stored session is answered 400
\* only for a protocol header that is no supported version (or, on the SSE
\* path, for a null id); otherwise it is dispatched: a notification is
\* answered 202, a request 200 with the dispatcher's response in the body or
\* as the only message of a request stream that is then closed.
C27_UnknownSessionDispatched ==
    \A sessionId \in UnknownSessionIds, protocolHeader \in ProtocolHeaders,
       acceptsSse \in BOOLEAN :
        \A message \in CallMessagesOf(OtherMessages) :
            \A r \in {PostOf(sessionId, message, acceptsSse, protocolHeader)} :
                IF protocolHeader \notin {NoVersion} \cup SUPPORTED_MCP_PROTOCOL_VERSIONS_LIST
                THEN /\ r.http = respondToProtocolMismatch(
                                     IF message.id = AbsentId THEN NullId ELSE message.id)
                     /\ r.w = World
                ELSE IF message.id = AbsentId
                THEN r.http = Http(202, <<>>, Undefined, 0) /\ r.w = World
                ELSE IF ~acceptsSse
                THEN /\ r.http = Http(200, dispatch(mcpServer, message, BuiltinOutcome(message)),
                                      SessionHeader(World, sessionId), 0)
                     /\ r.w = World
                ELSE IF message.id = NullId
                THEN r.http = Http(400, <<>>, Undefined, 0) /\ r.w = World
                ELSE /\ r.http.status = 200
                     /\ r.http.stream = Len(transport.writers) + 1
                     /\ r.w.transport.writers[r.http.stream].closed
                     /\ \E out \in {r.w.transport.writers[r.http.stream].out} :
                           /\ Len(out) = 1
                           /\ out[1].type = "response"
                           /\ out[1].id = message.id
                           /\ ~out[1].isError
                     /\ r.w.store = store

\* A request that named a session the store does not hold was answered 200
\* with a result.
C27_Witness ==
    /\ lastHttp.op = "POST"
    /\ lastHttp.message = NoMessage
    /\ lastHttp.response.status = 200
    /\ lastHttp.response.sessionId # Undefined
    /\ lastHttp.response.sessionId \notin DOMAIN store.sessions
    /\ transport.uuids > 0
    /\ Len(lastHttp.response.body) = 1
    /\ ~lastHttp.response.body[1].isError


(***************************************************************************)
(* Properties of DELETE and of closing streams                             *)
(***************************************************************************)
DeletableSessionIds ==
    IssuedSessionIds \cup {u \o <<":", "x">> : u \in IssuedSessionIds}

\* What belongs to the session T in the world w: its record with its event
\* log, its session stream, and the request streams of its calls with their
\* registry entries.
BelongingsOf(w, sessionId) ==
    [record |-> IF sessionId \in DOMAIN w.store.sessions
                THEN <<w.store.sessions[sessionId]>> ELSE <<>>,
     sessionStream |-> IF sessionId \in DOMAIN w.transport.sessionStreams
                       THEN <<w.transport.writers[w.transport.sessionStreams[sessionId]]>>
                       ELSE <<>>,
     requestStreams |-> {<<e, w.transport.writers[w.exchanges[e].writer],
                           \E k \in DOMAIN w.transport.requestStreams :
                               w.transport.requestStreams[k] = w.exchanges[e].writer>> :
                            e \in {x \in 1..Len(w.exchanges) :
                                      w.exchanges[x].sse /\ w.exchanges[x].sessionId = sessionId}}]

\* C28: in every reachable state, a DELETE for S leaves the record, the
\* event log, the session stream and the request streams of every other
\* session T as they are, and ending one request stream leaves every other
\* stream as it is.
C28_DeleteTouchesOnlyItsSession ==
    /\ \A S \in DeletableSessionIds, T \in IssuedSessionIds :
          T # S => BelongingsOf(handleDelete(World, [sessionId |-> S]).w, T)
                       = BelongingsOf(World, T)
    /\ \A wr \in OpenWriters("request") :
          \A other \in 1..Len(transport.writers) :
              other # wr => end(transport, wr).writers[other] = transport.writers[other]


(***************************************************************************)
(* Properties of concurrent request streams                                *)
(***************************************************************************)
RunningSseExchanges == {e \in SseExchanges : exchanges[e].pc # "done"}

RegisteredIn(t, wr) == \E k \in DOMAIN t.requestStreams : t.requestStreams[k] = wr

\* C29: in every reachable state, when the dispatch of an in-flight POST-SSE
\* exchange settles, its response is written to its own stream and every
\* other stream's output stays as it is; and neither that completion nor the
\* client's closing of its stream removes the registry entry of an exchange
\* in flight for another request id.
C29_ConcurrentExchangesIndependent ==
    \A e \in RunningSseExchanges :
        \A after \in {complete(World, exchanges[e], Returns([kind |-> "tool"])).transport,
                      end(transport, exchanges[e].writer)} :
            /\ \A wr \in 1..Len(transport.writers) :
                  wr # exchanges[e].writer => after.writers[wr] = transport.writers[wr]
            /\ \A other \in RunningSseExchanges \ {e} :
                  (/\ exchanges[other].request.message.id # exchanges[e].request.message.id
                   /\ RegisteredIn(transport, exchanges[other].writer))
                      => RegisteredIn(after, exchanges[other].writer)


(***************************************************************************)
(* Properties of output validation                                         *)
(***************************************************************************)
\* C30: a call of a registered tool whose arguments are accepted and whose
\* handler is reached through the middlewares around it is answered
\* with InvalidParams when the tool has an output validator and its handler
\* returned structured content that fails it without isError; with the
\* validated value in place of the structured content when it passes; and
\* with the handler's result as it is when the tool has no output validator,
\* the result has no structured content, or the result has isError set.
C30_OutputValidation ==
    \A n \in DOMAIN mcpServer.tools :
        \A entry \in {mcpServer.tools[n]} :
          (/\ HandlerCalled(mcpServer, CallMessage("tools/call", CallParams(TRUE, n, "a5")))
           /\ ~Invoked(entry, "a5").threw) =>
            \A raw \in {Invoked(entry, "a5").result},
               responses \in {dispatchOn(mcpServer,
                                  CallMessage("tools/call", CallParams(TRUE, n, "a5")))} :
                IF /\ entry.outputValidator # "none"
                   /\ raw.structuredContent # <<>>
                   /\ ~raw.isError
                THEN IF raw.structuredContent = <<"a5">>
                     THEN /\ IsResult(responses)
                          /\ responses[1].body =
                                 [raw EXCEPT !.structuredContent = <<"validated">>]
                     ELSE IsError(responses, INVALID_PARAMS)
                ELSE IsResult(responses) /\ responses[1].body = raw

\* The tool that was called has an output validator and returned structured
\* content: the answer carries the validated value, or is an error.
C30_Witness ==
    /\ dispatched.op = "call"
    /\ dispatched.message.method = "tools/call"
    /\ dispatched.message.params.name \in DOMAIN mcpServer.tools
    /\ mcpServer.tools[dispatched.message.params.name].outputValidator = "standard"
    /\ mcpServer.tools[dispatched.message.params.name].handler.fn = "valid"
    /\ IsResult(dispatched.responses)
    /\ dispatched.responses[1].body.structuredContent = <<"validated">>


(***************************************************************************)
(* Properties of error handling in _dispatch                               *)
(***************************************************************************)
\* The failure that reached the catch block of the dispatch, if any.
FailureOfDispatched ==
    runMiddlewares(dispatched.server.middlewares, 1, dispatched.message, dispatched.outcome)

\* C31: a request whose handler or middleware failed is answered with one
\* error response: the error the onError hook returned if it returned one,
\* and otherwise (no hook, a hook that returns undefined, a hook that
\* throws) the failure's own code and message if it is an RpcError and
\* InternalError if it is not.
C31_FailureMapping ==
    (dispatched.calls > 0 /\ dispatched.message.id # AbsentId /\ FailureOfDispatched.threw) =>
        /\ Len(dispatched.responses) = 1
        /\ dispatched.responses[1].isError
        /\ dispatched.responses[1].id = dispatched.message.id
        /\ IF dispatched.server.onError = "custom"
           THEN dispatched.responses[1].code = CustomError.code
           ELSE IF FailureOfDispatched.error.rpc
           THEN /\ dispatched.responses[1].code = FailureOfDispatched.error.code
                /\ dispatched.responses[1].body.message = FailureOfDispatched.error.message
           ELSE dispatched.responses[1].code = INTERNAL_ERROR

\* A tool handler threw an RpcError below a middleware while the onError
\* hook throws: the answer keeps the RpcError's code.
C31_Witness ==
    /\ dispatched.calls > 0
    /\ dispatched.message.id = [t |-> "string", v |-> <<"1">>]
    /\ dispatched.message.method = "tools/call"
    /\ dispatched.server.middlewares = <<"next">>
    /\ dispatched.server.onError = "throws"
    /\ dispatched.outcome = Throws(RpcError(INVALID_PARAMS, "invalid arguments"))
    /\ Len(dispatched.responses) = 1
    /\ dispatched.responses[1].code = INVALID_PARAMS


(***************************************************************************)
(* Properties of middlewares that do not call next                         *)
(***************************************************************************)
\* The first middleware of the chain that does not call next is of one of
\* these kinds.
StopsAt(mws, kinds) ==
    \E i \in 1..Len(mws) : mws[i] \in kinds /\ \A j \in 1..(i - 1) : mws[j] = "next"

\* The registry entries whose handler a call reaches when the parent's
\* middlewares let it through: the tool or prompt of that name whose
\* validator accepts the arguments, the resource that the URI selects.
EntriesCalled(server, message) ==
    IF ~message.params.isObject \/ message.params.name = Undefined THEN {}
    ELSE CASE message.method = "tools/call" ->
                {server.tools[n] : n \in {m \in DOMAIN server.tools :
                    /\ m = message.params.name
                    /\ \/ server.tools[m].validator = "none"
                       \/ ~createValidationFunction(server.tools[m].validator,
                                                    message.params.arguments).threw}}
           [] message.method = "prompts/get" ->
                {server.prompts[n] : n \in {m \in DOMAIN server.prompts :
                    /\ m = message.params.name
                    /\ \/ server.prompts[m].validator = "none"
                       \/ ~createValidationFunction(server.prompts[m].validator,
                                                    message.params.arguments).threw}}
           [] message.method = "resources/read" ->
                {server.resources[t] : t \in {u \in DOMAIN server.resources :
                    \/ server.resources[u].type = "resource" /\ u = message.params.name
                    \/ /\ server.resources[u].type = "resource_template"
                       /\ match(u, message.params.name)
                       /\ ~\E d \in DOMAIN server.resources :
                             server.resources[d].type = "resource"
                                 /\ d = message.params.name}}
           [] OTHER -> {}

\* The handler of a mounted entry whose child middleware returns without
\* calling next is not entered, and the call of the wrapped handler fails
\* with InternalError, which is the answer to the request.
ChildPartOfC32 ==
    (dispatched.op = "call" /\ HandlerCalled(mcpServer, dispatched.message)) =>
        \A entry \in EntriesCalled(mcpServer, dispatched.message) :
            StopsAt(entry.handler.mws, {"skip", "respond"}) =>
                /\ ~runWrapped(entry.handler.mws, 1, Returns([kind |-> entry.type])).invoked
                /\ Invoked(entry, dispatched.message.params.arguments).threw
                /\ Invoked(entry, dispatched.message.params.arguments).error
                       = RpcError(INTERNAL_ERROR, "Internal server error")
                /\ IsError(dispatched.responses, INTERNAL_ERROR)

\* C32 as stated: whenever a middleware of the parent returns without
\* calling next the request is answered with InternalError and no handler
\* runs, and whenever a middleware of a mounted child does, the wrapped
\* handler call fails with InternalError and the handler is not invoked.
C32_ReturnWithoutNextIsInternalError ==
    /\ (dispatched.op = "call" /\ StopsAt(mcpServer.middlewares, {"skip", "respond"})) =>
            /\ IsError(dispatched.responses, INTERNAL_ERROR)
            /\ ~HandlerCalled(mcpServer, dispatched.message)
    /\ ChildPartOfC32

\* C32, amended: a middleware of the parent that returns without calling
\* next and without assigning ctx.response makes the answer an InternalError
\* response; one that assigned ctx.response makes that response the answer;
\* no handler runs in either case.  A middleware of a mounted child that
\* returns without calling next, whether or not it assigned ctx.response,
\* makes the wrapped handler call fail with InternalError without invoking
\* the handler.
C32_SwallowedTailIsInternalError ==
    /\ (dispatched.op = "call" /\ StopsAt(mcpServer.middlewares, {"skip"})) =>
            /\ IsError(dispatched.responses, INTERNAL_ERROR)
            /\ dispatched.responses[1].body.message = "No response generated"
            /\ ~HandlerCalled(mcpServer, dispatched.message)
    /\ (dispatched.op = "call" /\ StopsAt(mcpServer.middlewares, {"respond"})) =>
            /\ IsResult(dispatched.responses)
            /\ dispatched.responses[1].body = [kind |-> "middleware"]
            /\ ~HandlerCalled(mcpServer, dispatched.message)
    /\ ChildPartOfC32

\* A tool mounted from a child whose middleware returns without calling
\* next was called with arguments its validator accepts, and the answer is
\* an InternalError.
C32_Witness ==
    /\ dispatched.op = "call"
    /\ dispatched.message.method = "tools/call"
    /\ mcpServer.middlewares = <<"next">>
    /\ \E entry \in EntriesCalled(mcpServer, dispatched.message) :
            entry.handler.mws = <<"skip">>
    /\ IsError(dispatched.responses, INTERNAL_ERROR)


(***************************************************************************)
(* Properties of list_changed notifications                                *)
(***************************************************************************)
\* Whether the child has an entry of the kind whose name under the mount
\* the parent did not have.
AddsEntry(own, mounted, prefix, suffix, rename) ==
    \E n \in DOMAIN mounted :
        (IF rename THEN buildScopedName(prefix, suffix, n) ELSE n) \notin DOMAIN own

\* The notifications that the registry call recorded in dispatched is to
\* send on an initialized server: one of the kind for a tool, prompt or
\* resource that was registered, and for a group one for each kind of which
\* the child brought an entry under a name the parent did not have.
ExpectedListChanged ==
    LET before == dispatched.before
        args == dispatched.args
        only(cond, method) == IF cond THEN <<method>> ELSE <<>>
    IN  CASE dispatched.op = "tool" ->
                only(~resolveSchema(args.schema, before.schemaAdapter).threw
                         /\ ~resolveSchema(args.outputSchema, before.schemaAdapter).threw,
                     "notifications/tools/list_changed")
          [] dispatched.op = "prompt" ->
                only(args.schema = "none"
                         \/ ~resolveSchema(args.schema, before.schemaAdapter).threw,
                     "notifications/prompts/list_changed")
          [] dispatched.op = "resource" -> <<"notifications/resources/list_changed">>
          [] dispatched.op = "group" ->
                only(AddsEntry(before.tools, args.child.tools, args.prefix, args.suffix, TRUE),
                     "notifications/tools/list_changed")
                \o only(AddsEntry(before.prompts, args.child.prompts, args.prefix,
                                  args.suffix, TRUE),
                        "notifications/prompts/list_changed")
                \o only(AddsEntry(before.resources, args.child.resources, args.prefix,
                                  args.suffix, FALSE),
                        "notifications/resources/list_changed")
          [] OTHER -> <<>>

ListChangedSent ==
    dispatched.op \in {"tool", "prompt", "resource", "group", "use"} =>
        dispatched.sent = IF dispatched.before.initialized THEN ExpectedListChanged
                          ELSE <<>>

\* The server becomes initialized only by a dispatched initialize whose
\* handler returned, and stays initialized.
InitializedByInitialize ==
    /\ mcpServer.initialized => mcpServer'.initialized
    /\ (~mcpServer.initialized /\ mcpServer'.initialized) =>
          /\ dispatched'.op = "call"
          /\ dispatched'.message.method = "initialize"
          /\ IsResult(dispatched'.responses)
          /\ dispatched'.responses[1].body.kind = "initialize"
    /\ (/\ dispatched'.op = "call"
        /\ dispatched' # dispatched
        /\ IsResult(dispatched'.responses)
        /\ dispatched'.responses[1].body.kind = "initialize") => mcpServer'.initialized

ArmedTimerIsRegistered ==
    \A h \in Handles :
        adapter.promises[h].timer = "armed" =>
            /\ adapter.promises[h].key \in DOMAIN adapter.pending
            /\ adapter.pending[adapter.promises[h].key] = h
            /\ adapter.promises[h].state = "pending"

\* A step in which the timer of entry h fires removes the entry h from under
\* its key, rejects h, and leaves every other entry and promise as it was.
TimeoutTouchesOwnEntry ==
    \A h \in Handles :
        (adapter.promises[h].timer # "fired" /\ adapter'.promises[h].timer = "fired") =>
            /\ adapter.promises[h].timer = "armed"
            /\ adapter.pending[adapter.promises[h].key] = h
            /\ adapter'.pending = RemoveKey(adapter.pending, adapter.promises[h].key)
            /\ adapter'.promises[h].state = "rejected"
            /\ adapter'.promises[h].reason = "timeout"
            /\ \A other \in Handles \ {h} :
                  adapter'.promises[other] = adapter.promises[other]

\* C34: the timeout of a pending entry removes and rejects only that entry:
\* the timer of an entry that was resolved, rejected or replaced by a
\* createPending under its key is no longer armed, so the timeout of an
\* older entry never deletes or rejects a newer entry under the key.
C34_TimeoutOnlyOwnEntry ==
    []ArmedTimerIsRegistered /\ [][TimeoutTouchesOwnEntry]_vars

\* An entry with a timer was replaced under its key by a newer entry, and
\* the timeout that then fired was the newer entry's own.
C34_Witness ==
    /\ lastCall.op = "timeout"
    /\ \E old, new \in Handles :
          /\ old < new
          /\ adapter.promises[old].key = adapter.promises[new].key
          /\ adapter.promises[old].timeoutMs = <<TimeoutMs>>
          /\ adapter.promises[old].reason = "replaced"
          /\ adapter.promises[old].timer = "cleared"
          /\ adapter.promises[new].timer = "fired"


(***************************************************************************)
(* Properties of server-initiated client requests                          *)
(***************************************************************************)
\* A stream of this scope and key is open: its writer was created and is not
\* closed.
HasOpenStream(t, scope, key) ==
    \E wr \in 1..Len(t.writers) :
        /\ t.writers[wr].scope = scope
        /\ t.writers[wr].key = key
        /\ ~t.writers[wr].closed

\* The sessions a client request is sent for: none, or one whose id the
\* transport generated.
ClientRequestSessionIds == {Undefined} \cup {randomUUID(n) : n \in 1..MaxUuids}

Undeliverable(t, sessionId, relatedRequestId) ==
    \/ FalsyString(sessionId)
    \/ /\ ~HasOpenStream(t, "session", sessionId)
       /\ \/ relatedRequestId = AbsentId
          \/ ~HasOpenStream(t, "request", requestStreamKey(sessionId, relatedRequestId))

\* C35: a client request sent while neither the request stream of the
\* related request nor the session stream of the session is open makes
\* sendClientRequest throw, and the entry it created is rejected and no
\* longer registered; nothing is written to any stream.
C35_UndeliveredRequestLeavesNoEntry ==
    \A sessionId \in ClientRequestSessionIds, requestId \in ElicitIds,
       relatedRequestId \in TransportRequestIds \cup {AbsentId},
       timeout_ms \in {NoNumber, <<TimeoutMs>>} :
        \A r \in {sendClientRequest(World, sessionId, requestId, relatedRequestId,
                                    timeout_ms)} :
            (transport.clientRequestAdapter
                /\ Undeliverable(transport, sessionId, relatedRequestId)) =>
                /\ r.threw
                /\ makeKey(sessionId, requestId) \notin DOMAIN r.w.adapter.pending
                /\ Len(r.w.adapter.promises) = Len(adapter.promises) + 1
                /\ \A created \in {r.w.adapter.promises[Len(r.w.adapter.promises)]} :
                      /\ created.key = makeKey(sessionId, requestId)
                      /\ created.state = "rejected"
                      /\ created.reason = "undelivered"
                      /\ created.timer # "armed"
                /\ r.w.transport = transport

\* A tool handler asked the client while no stream was open: the promise of
\* the request was rejected as undelivered and its entry is gone.
C35_Witness ==
    \E h \in Handles :
        /\ adapter.promises[h].reason = "undelivered"
        /\ adapter.promises[h].state = "rejected"
        /\ adapter.promises[h].key \notin DOMAIN adapter.pending
        /\ \A wr \in 1..Len(transport.writers) : transport.writers[wr].closed


\* The client request with this id was written to a stream.
RequestWritten(t, requestId) ==
    \E wr \in 1..Len(t.writers) : \E i \in 1..Len(t.writers[wr].out) :
        t.writers[wr].out[i].type = "request" /\ t.writers[wr].out[i].id = requestId

\* For the client request that the tool call e delivered: it was created
\* under the key of the call's session and its id and was written to a
\* stream; while it is unsettled its entry is registered and the POST of a
\* response with that id in that session resolves it; otherwise it was
\* settled by a response, a timeout, a rejection or a replacement.
DeliveredRequestFindsEntry ==
    \A e \in 1..Len(exchanges) :
        exchanges[e].promise # 0 =>
            \A h \in {exchanges[e].promise} : \A p \in {adapter.promises[h]} :
                \E requestId \in ElicitIds :
                    /\ p.key = makeKey(exchanges[e].sessionId, requestId)
                    /\ RequestWritten(transport, requestId)
                    /\ IF p.state = "pending"
                       THEN /\ Registered(h)
                            /\ \A acceptsSse \in BOOLEAN :
                                  PostOf(exchanges[e].sessionId,
                                         Message("response", requestId, "", NoParams, <<>>),
                                         acceptsSse, NoVersion
                                        ).w.adapter.promises[h].state = "resolved"
                       ELSE /\ ~Registered(h)
                            /\ p.reason \in {"response", "timeout", "explicit", "replaced"}

\* A step that writes a client request to a stream leaves the entry of that
\* request registered and unsettled.
RegisteredWhenWritten ==
    \A requestId \in ElicitIds :
        (~RequestWritten(transport, requestId) /\ RequestWritten(transport', requestId)) =>
            \E h \in 1..Len(adapter'.promises) :
                /\ adapter'.promises[h].state = "pending"
                /\ adapter'.promises[h].key \in DOMAIN adapter'.pending
                /\ adapter'.pending[adapter'.promises[h].key] = h
                /\ \E sessionId \in ClientRequestSessionIds :
                      adapter'.promises[h].key = makeKey(sessionId, requestId)

\* C36: the pending entry of a server-initiated client request is registered
\* by the time the request is written to a stream, so a client response
\* POSTed after the delivery finds the entry unless a timeout, a rejection
\* or a replacement settled it before.
C36_RegisteredBeforeDelivery ==
    []DeliveredRequestFindsEntry /\ [][RegisteredWhenWritten]_vars

\* A tool handler awaits the client's answer to a request that was written
\* to the stream of its own POST, and the entry is registered.
C36_Witness ==
    \E e \in 1..Len(exchanges) :
        /\ exchanges[e].pc = "awaiting"
        /\ exchanges[e].sse
        /\ adapter.promises[exchanges[e].promise].state = "pending"
        /\ Registered(exchanges[e].promise)
        /\ \E i \in 1..Len(transport.writers[exchanges[e].writer].out) :
              transport.writers[exchanges[e].writer].out[i].type = "request"


(***************************************************************************)
(* Properties of the stateless mode                                        *)
(***************************************************************************)
\* C37: without a session adapter the client capabilities of every dispatch
\* are empty, ctx.elicit and ctx.sample throw MethodNotFound and leave the
\* world as it was, no client request is written to any stream, and no
\* pending entry is ever created.
C37_StatelessNeverAsksClient ==
    ~transport.sessionAdapter =>
        /\ adapter.pending = <<>>
        /\ adapter.promises = <<>>
        /\ \A requestId \in ElicitIds : ~RequestWritten(transport, requestId)
        /\ \A sessionId \in TransportSessionIds \cup {<<"x">>} :
              getClientCapabilities(World, sessionId) = {}
        /\ \A e \in 1..Len(exchanges) :
              /\ exchanges[e].clientCapabilities = {}
              /\ \A requestId \in ElicitIds, timeout_ms \in {NoNumber, <<TimeoutMs>>} :
                    \A r \in {elicit(World, exchanges[e], requestId, timeout_ms),
                              sample(World, exchanges[e], requestId, timeout_ms)} :
                        /\ r.threw
                        /\ r.error.rpc /\ r.error.code = METHOD_NOT_FOUND
                        /\ r.w = World

\* On a transport without session adapter and with a client request adapter
\* a tool handler that asks the client over the stream of its POST finished
\* with the MethodNotFound error.
C37_Witness ==
    /\ ~transport.sessionAdapter
    /\ transport.clientRequestAdapter
    /\ \E e \in 1..Len(exchanges) :
          /\ exchanges[e].request.behaviour \in {"elicit", "sample"}
          /\ exchanges[e].sse
          /\ exchanges[e].pc = "done"
          /\ \E i \in 1..Len(transport.writers[exchanges[e].writer].out) :
                /\ transport.writers[exchanges[e].writer].out[i].type = "response"
                /\ transport.writers[exchanges[e].writer].out[i].isError


(***************************************************************************)
(* Properties of a GET whose replay fails                                  *)
(***************************************************************************)
GetRequest(sessionId, lastEventId) ==
    [sessionId |-> sessionId, acceptsSse |-> TRUE, protocolHeader |-> NoVersion,
     lastEventId |-> lastEventId]

\* A GET that reaches the replay with a Last-Event-ID on which replay throws
\* is answered 500, its stream is closed and the session has no stream
\* registered after it, and a GET of the session that follows it is answered
\* with a stream.
FailedReplayFreesSession ==
    \A sessionId \in TransportSessionIds, lastEventId \in TransportLastEventIds :
        \A req \in {GetRequest(sessionId, lastEventId)} :
            (/\ handleGetChecks(World, req) = <<>>
             /\ sessionId \notin DOMAIN transport.sessionStreams
             /\ ~FalsyString(lastEventId)
             /\ replay(store, sessionId, lastEventId).threw) =>
                \A r \in {handleGet(World, req)} :
                    /\ r.http.status = 500
                    /\ sessionId \notin DOMAIN r.w.transport.sessionStreams
                    /\ Len(r.w.transport.writers) = Len(transport.writers) + 1
                    /\ r.w.transport.writers[Len(r.w.transport.writers)].closed
                    /\ handleGet(r.w, GetRequest(sessionId, Undefined)).http.status = 200

\* A stream that is registered for a session is open.
RegisteredSessionStreamsOpen ==
    \A sessionId \in DOMAIN transport.sessionStreams :
        ~transport.writers[transport.sessionStreams[sessionId]].closed

\* The step in which a GET whose replay threw goes on after the replay: it is
\* answered 500, and its stream is closed and registered for no session.
FailedReplayStep ==
    \A e \in 1..Len(exchanges) :
        (/\ "op" \in DOMAIN exchanges[e]
         /\ exchanges[e].op = "GET"
         /\ exchanges[e].pc = "replaying"
         /\ exchanges[e].replayed.threw
         /\ ~FalsyString(exchanges[e].request.lastEventId)
         /\ exchanges' = Without(exchanges, e)) =>
            /\ lastHttp'.op = "GET"
            /\ lastHttp'.response.status = 500
            /\ transport'.writers[exchanges[e].writer].closed
            /\ \A sessionId \in DOMAIN transport'.sessionStreams :
                  transport'.sessionStreams[sessionId] # exchanges[e].writer

\* C38: a GET whose replay fails is answered 500 and the session stream that
\* was registered for it is ended and unregistered, so that a later GET of
\* the session is not answered 409 because of it.
C38_FailedReplayUnregisters ==
    /\ [](FailedReplayFreesSession /\ RegisteredSessionStreamsOpen)
    /\ [][FailedReplayStep]_vars

\* After a GET of a session whose replay failed, a second GET of the session
\* was answered with a stream.
C38_Witness ==
    /\ lastHttp.op = "GET"
    /\ lastHttp.response.status = 200
    /\ \E failed, opened \in 1..Len(transport.writers) :
          /\ failed < opened
          /\ lastHttp.response.stream = opened
          /\ transport.writers[failed].scope = "session"
          /\ transport.writers[opened].scope = "session"
          /\ transport.writers[failed].key = transport.writers[opened].key
          /\ transport.writers[failed].closed
          /\ transport.writers[failed].out = <<>>
          /\ ~transport.writers[opened].closed


(***************************************************************************)
(* Properties of the protocol version of a session                         *)
(***************************************************************************)
\* C39: the protocolVersion stored for each session is 2025-03-26 or
\* 2025-06-18, whatever version the initialize request named: the session
\* that an initialize request creates gets the requested version if it is
\* one of the two, and one of the two otherwise.
C39_StoredVersionSupported ==
    /\ \A id \in DOMAIN store.sessions :
          store.sessions[id].meta.protocolVersion \in {V2025_03_26, V2025_06_18}
    /\ \A message \in InitializeMessages, acceptsSse \in BOOLEAN,
          protocolHeader \in ProtocolHeaders :
          \A r \in {PostOf(Undefined, message, acceptsSse, protocolHeader)} :
              \A id \in DOMAIN r.w.store.sessions \ DOMAIN store.sessions :
                  \A stored \in {r.w.store.sessions[id].meta.protocolVersion} :
                      /\ stored \in {V2025_03_26, V2025_06_18}
                      /\ (isInitializeParams(message.params)
                             /\ message.params.protocolVersion \in {V2025_03_26, V2025_06_18})
                            => stored = message.params.protocolVersion

\* An initialize request whose protocolVersion is not a string was
\* answered, a session was stored for it, and the version stored is
\* 2025-06-18.
C39_Witness ==
    /\ lastHttp.op = "POST"
    /\ lastHttp.message.kind = "call"
    /\ lastHttp.message.method = "initialize"
    /\ ~lastHttp.message.params.nullish
    /\ ~lastHttp.message.params.versionIsString
    /\ lastHttp.response.sessionId \in DOMAIN store.sessions
    /\ store.sessions[lastHttp.response.sessionId].meta.protocolVersion = V2025_06_18

(***************************************************************************)
(* A driver of createSSEStream: streams are created and registered, and    *)
(* their writers are written to, ended and cancelled in any order.         *)
(***************************************************************************)
MaxStreams == 2

MaxWrites == 2

WriterMessages ==
    {Sse("notification", AbsentId, FALSE, Undefined),
     Sse("response", [t |-> "string", v |-> <<"1">>], FALSE, <<"1">>),
     Unserializable}

InitWriter ==
    /\ PendingIdle
    /\ StoreIdle
    /\ DispatchIdle
    /\ TransportIdle

WriterCalled(op, wr) ==
    /\ lastCall' = [op |-> op, key |-> transport.writers[wr].key,
                    ret |-> transport.writers[wr].closed]
    /\ UNCHANGED <<adapter, storeVars, dispatchVars, mcpServer, exchanges, lastHttp>>

\* A stream is created and registered under its key.
OpenStream ==
    /\ Len(transport.writers) < MaxStreams
    /\ \E scope \in {"session", "request"} :
         \E t1 \in {createSSEStream(transport, scope, randomUUID(Len(transport.writers) + 1))} :
           /\ transport' =
                IF scope = "session"
                THEN [t1 EXCEPT !.sessionStreams =
                        PutKey(@, randomUUID(Len(transport.writers) + 1), Len(t1.writers))]
                ELSE [t1 EXCEPT !.requestStreams =
                        PutKey(@, randomUUID(Len(transport.writers) + 1), Len(t1.writers))]
           /\ lastCall' = [op |-> "createSSEStream",
                           key |-> randomUUID(Len(transport.writers) + 1), ret |-> FALSE]
           /\ UNCHANGED <<adapter, storeVars, dispatchVars, mcpServer, exchanges, lastHttp>>

WriterWrite ==
    \E wr \in 1..Len(transport.writers) : \E message \in WriterMessages :
        /\ Len(transport.writers[wr].out) < MaxWrites
        /\ transport' = write(transport, wr, message)
        /\ WriterCalled(IF message = Unserializable THEN "failed write" ELSE "write", wr)

WriterEnd ==
    \E wr \in 1..Len(transport.writers) :
        /\ transport' = end(transport, wr)
        /\ WriterCalled("end", wr)

\* The consumer cancels the stream: cancel() calls end().
WriterCancel ==
    \E wr \in 1..Len(transport.writers) :
        /\ transport' = end(transport, wr)
        /\ WriterCalled("cancel", wr)

NextWriter ==
    \/ OpenStream
    \/ WriterWrite
    \/ WriterEnd
    \/ WriterCancel

SpecWriter == InitWriter /\ [][NextWriter]_vars

\* Once closed, a writer is never open again, enqueues nothing more and runs
\* onClose no more.
ClosedWriterStays ==
    \A wr \in 1..Len(transport.writers) :
        transport.writers[wr].closed =>
            /\ wr \in 1..Len(transport'.writers)
            /\ transport'.writers[wr] = transport.writers[wr]

\* Every call on a closed writer leaves everything as it is; a write that
\* fails on an open writer closes it.
ClosedWriterIgnoresCalls ==
    \A wr \in 1..Len(transport.writers) :
        IF transport.writers[wr].closed
        THEN /\ end(transport, wr) = transport
             /\ \A message \in WriterMessages : write(transport, wr, message) = transport
        ELSE /\ write(transport, wr, Unserializable).writers[wr].closed
             /\ write(transport, wr, Unserializable).writers[wr].out = transport.writers[wr].out

\* C40: the closed state of an SSE stream writer is absorbing: after end(),
\* a cancel of the consumer or a failed write, nothing more is enqueued on
\* it whatever is called, and over any sequence of write, end and cancel
\* calls onClose has run exactly once when the writer is closed, and not
\* before.
C40_ClosedIsAbsorbing ==
    /\ [](\A wr \in 1..Len(transport.writers) :
            transport.writers[wr].onCloseCalls = IF transport.writers[wr].closed THEN 1 ELSE 0)
    /\ []ClosedWriterIgnoresCalls
    /\ [][ClosedWriterStays]_vars

\* A writer that had enqueued a message and was closed was written to again:
\* it holds what it held, and its onClose ran once.
C40_Witness ==
    /\ lastCall.op \in {"write", "failed write"}
    /\ lastCall.ret
    /\ \E wr \in 1..Len(transport.writers) :
         /\ transport.writers[wr].key = lastCall.key
         /\ transport.writers[wr].closed
         /\ Len(transport.writers[wr].out) = 1
         /\ transport.writers[wr].onCloseCalls = 1

====
